---- MODULE Spec2Model ----
(***************************************************************************)
(* asic-rs: device identification (MinerFactory::get_miner), the response  *)
(* classifiers, model resolution and the per-backend data collection.      *)
(*                                                                         *)
(* Text is modelled as a sequence of one-character strings, so that        *)
(* to_uppercase, contains and split act on characters as the Rust code     *)
(* does.  Option<T> is <<"None">> or <<"Some", t>>.                        *)
(***************************************************************************)
EXTENDS Naturals, Integers, Sequences, FiniteSets, TLC

VARIABLES
    \* ---- parse_type_from_socket applied to one RPC response
    sock_response,   \* the response: [tokens, letters, order]
    sock_result,     \* <<"Pending">> or <<"Done", Option<(make, firmware)>>>
    \* ---- parse_type_from_web applied to one HTTP response
    web_response,    \* the response: [markers, status, auth, location]
    web_result,      \* <<"Pending">>, <<"Return", Option<..>>> or <<"Panic">>
    \* ---- get_model_avalonminer applied to one version response
    version_response, \* Option<json>: the answer to RPC "version"
    model_factory,   \* <<"Pending">> or <<"Done", Option<MinerModel>>> (model/mod.rs)
    model_table,     \* <<"Pending">> or <<"Done", Option<MinerModel>>> (model/avalonminer.rs)
    \* ---- MinerFactory::get_miner for one address
    pc,              \* where get_miner is: "start", "select", "get_model", "returned", "panicked"
    commands,        \* the HashSet of discovery commands
    task,            \* discovery_tasks: command -> "unspawned", "running", "finished", "joined", "aborted"
    output,          \* command -> the task's output: Pending, <<"Return", Option<..>>> or Panic
    notified,        \* the finished tasks join_next has not yet returned, oldest first
    finish_order,    \* every finished task, in the order of finishing
    tasks,           \* the spawned loop: Pending or <<"Return", Option<(make, firmware)>>>
    timeout,         \* whether sleep(MAX_WAIT_TIME) has elapsed
    miner_info,      \* Pending, or the value select! produced
    model_reply,     \* Pending, or the device's answer to the phase-2 query
    get_miner_result, \* Pending, <<"Ok", Option<(Option<MinerModel>, Option<MinerFirmware>)>>> or Panic
    \* ---- DataCollector::collect_all for one miner
    miner,           \* the backend whose location map is used
    fields,          \* the fields of interest, in order
    coll_pc,         \* where collect_all is: "start", "issuing", "done"
    to_issue,        \* the commands still to send to the transport
    calls,           \* command -> how many times the transport was invoked with it
    cache,           \* command -> the response kept for extraction (successes only)
    field_map,       \* Pending, or <<"Return", map>>: the returned map, field -> merged value
    \* ---- extract applied to one document and one path
    ext_document,    \* the JSON document
    ext_path,        \* Option<&str>: the path
    ext_result,      \* Pending, <<"Return", Option<JSON>>> or Panic
    \* ---- get_miners_with_options over one address range
    scan_pc,         \* "scanning", "returned" or "panicked"
    n_hosts,         \* the number of hosts of the range
    next_host,       \* how many hosts the stream has handed out
    host_state,      \* host -> "queued", "discovery", "get_model", "done"
    host_output,     \* host -> Pending, or what its pipeline yielded: Option<miner>
    miners,          \* the miners collected, in order of completion
    \* ---- VnishWebAPI::send_command for one command
    vn_pc,           \* "request" (execute_request awaited), "unlock" (authenticate awaited), "done"
    vn_retries,      \* self.retries
    vn_auto_authenticate, \* self.auto_authenticate
    vn_password,     \* Option<String>: self.password
    vn_bearer_token, \* Option<String>: self.bearer_token of the client sending
    vn_attempt,      \* the loop variable of the innermost send_command
    vn_depth,        \* how many send_command calls are nested inside the first
    vn_unlocks,      \* how many unlock requests were sent
    vn_requests,     \* how many requests of the command execute_request sent
    vn_result,       \* Pending, or what send_command returned
    \* ---- CGMinerRPC::get_api_result for one command
    rpc_command,     \* the MinerCommand
    rpc_transport,   \* what the socket did: "connect_failed", "io_error", "empty", "refused", "data"
    rpc_response,    \* the data read: [parses, document]
    rpc_result,      \* Pending, or the Result<Value, String> returned
    \* ---- DeviceInfo::new called twice
    dev_args,        \* call -> the arguments [make, model, firmware, algo]
    dev_info,        \* call -> Pending, or <<"Return", DeviceInfo>>
    \* ---- AvalonMiner::get_data for one miner
    av_pc,           \* "collect" (collect_all awaited), "normalize", "done"
    av_ip,           \* self.ip
    av_responses,    \* command -> what the transport answers: <<"Ok", document>> or <<"Err">>
    av_data,         \* Pending, or <<"Return", map>>: what collect_all returned
    av_miner_data,   \* Pending, or <<"Return", MinerData>>
    \* ---- MinerFactory: the search lists and the start of get_miner
    search_makes,    \* Option<Vec<MinerMake>>
    search_firmwares, \* Option<Vec<MinerFirmware>>
    fac_pc,          \* "configuring", or "spawned" once get_miner has spawned its probes
    fac_op,          \* the last method called and its argument
    fac_commands,    \* the HashSet of get_miner, in order of insertion
    fac_spawned,     \* the commands the JoinSet tasks were spawned with, one per task
    \* ---- get_version_whatsminer and BTMiner::new for one device
    bt_fw_ver,       \* Option<&str>: Msg.fw_ver of the get_version answer
    bt_version,      \* Pending, or <<"Return", Option<semver::Version>>>
    bt_backend,      \* Pending, or <<"Return", backend>>: what BTMiner::new built
    \* ---- one LUXMinerRPCAPI::send_rpc_command call
    lux_call,            \* [command, privileged, parameters]: the arguments
    lux_session_answer,  \* what the device does with the session command
    lux_logon_answer,    \* what the device does with the logon command
    lux_pc,              \* "start", "connected", "logon", "authed", "returned"
    lux_token,           \* Pending, or the Result of auth
    lux_written,         \* the requests written to the device, in order
    lux_result,          \* Pending, or <<"Return", Result<Value>>>
    \* ---- one LuxMinerV1::parse_hashboards call
    lh_boards,           \* device_info.hardware.boards: Option<u8>
    lh_chips,            \* device_info.hardware.chips: Option<u16>
    lh_data,             \* data.get(&DataField::Hashboards): Option<Value>
    lh_result,           \* Pending, Panic, or <<"Return", Vec<BoardData>>>
    \* ---- one MaraV1::parse_pools call
    mp_data,             \* data.get(&DataField::Pools): Option<Value>
    mp_result            \* Pending, or <<"Return", Vec<PoolData>>>

sockVars == <<sock_response, sock_result>>
webVars == <<web_response, web_result>>
modelVars == <<version_response, model_factory, model_table>>
discVars == <<pc, commands, task, output, notified, finish_order, tasks, timeout,
              miner_info, model_reply, get_miner_result>>
collVars == <<miner, fields, coll_pc, to_issue, calls, cache, field_map>>
extVars == <<ext_document, ext_path, ext_result>>
scanVars == <<scan_pc, n_hosts, next_host, host_state, host_output, miners>>
vnVars == <<vn_pc, vn_retries, vn_auto_authenticate, vn_password, vn_bearer_token,
            vn_attempt, vn_depth, vn_unlocks, vn_requests, vn_result>>
rpcVars == <<rpc_command, rpc_transport, rpc_response, rpc_result>>
devVars == <<dev_args, dev_info>>
avVars == <<av_pc, av_ip, av_responses, av_data, av_miner_data>>
facVars == <<search_makes, search_firmwares, fac_pc, fac_op, fac_commands, fac_spawned>>
btVars == <<bt_fw_ver, bt_version, bt_backend>>
luxVars == <<lux_call, lux_session_answer, lux_logon_answer, lux_pc, lux_token, lux_written,
             lux_result>>
lhVars == <<lh_boards, lh_chips, lh_data, lh_result>>
mpVars == <<mp_data, mp_result>>
vars == <<sockVars, webVars, modelVars, discVars, collVars, extVars, scanVars, vnVars,
          rpcVars, devVars, avVars, facVars, btVars, luxVars, lhVars, mpVars>>

\* what the actions of one part leave alone
later7 == <<mpVars>>
later6 == <<lhVars, later7>>
later5 == <<luxVars, later6>>
later4 == <<btVars, later5>>
later3 == <<facVars, later4>>
later2 == <<vnVars, rpcVars, devVars, avVars, later3>>
later == <<extVars, scanVars, later2>>
notSock == <<webVars, modelVars, discVars, collVars, later>>
notWeb == <<sockVars, modelVars, discVars, collVars, later>>
notModel == <<sockVars, webVars, discVars, collVars, later>>
notDisc == <<sockVars, webVars, modelVars, collVars, later>>
notColl == <<sockVars, webVars, modelVars, discVars, later>>
notExt == <<sockVars, webVars, modelVars, discVars, collVars, scanVars, later2>>
notScan == <<sockVars, webVars, modelVars, discVars, collVars, extVars, later2>>
earlier == <<sockVars, webVars, modelVars, discVars, collVars, extVars, scanVars>>
notVn == <<earlier, rpcVars, devVars, avVars, later3>>
notRpc == <<earlier, vnVars, devVars, avVars, later3>>
notDev == <<earlier, vnVars, rpcVars, avVars, later3>>
notAv == <<earlier, vnVars, rpcVars, devVars, later3>>
middle == <<vnVars, rpcVars, devVars, avVars>>
notFac == <<earlier, middle, later4>>
notBt == <<earlier, middle, facVars, later5>>
notLux == <<earlier, middle, facVars, btVars, later6>>
notLh == <<earlier, middle, facVars, btVars, luxVars, later7>>
notMp == <<earlier, middle, facVars, btVars, luxVars, lhVars>>

None == <<"None">>
Some(x) == <<"Some", x>>
Pending == <<"Pending">>
Done(x) == <<"Done", x>>
Panic == <<"Panic">>

\* the parts of the state a specification does not use stay as they start
SockIdle == sock_response = None /\ sock_result = Pending
WebIdle == web_response = None /\ web_result = Pending
ModelIdle == version_response = None /\ model_factory = Pending /\ model_table = Pending
DiscIdle ==
    /\ pc = "idle"
    /\ commands = {}
    /\ task = <<>>
    /\ output = <<>>
    /\ notified = <<>>
    /\ finish_order = <<>>
    /\ tasks = Pending
    /\ timeout = FALSE
    /\ miner_info = Pending
    /\ model_reply = Pending
    /\ get_miner_result = Pending
ExtIdle == ext_document = None /\ ext_path = None /\ ext_result = Pending
ScanIdle ==
    /\ scan_pc = "idle"
    /\ n_hosts = 0
    /\ next_host = 0
    /\ host_state = << >>
    /\ host_output = << >>
    /\ miners = << >>
CollIdle ==
    /\ miner = "none"
    /\ fields = << >>
    /\ coll_pc = "idle"
    /\ to_issue = <<>>
    /\ calls = <<>>
    /\ cache = <<>>
    /\ field_map = Pending
VnIdle ==
    /\ vn_pc = "idle"
    /\ vn_retries = 0
    /\ vn_auto_authenticate = FALSE
    /\ vn_password = None
    /\ vn_bearer_token = None
    /\ vn_attempt = 0
    /\ vn_depth = 0
    /\ vn_unlocks = 0
    /\ vn_requests = 0
    /\ vn_result = Pending
RpcIdle ==
    /\ rpc_command = None
    /\ rpc_transport = "idle"
    /\ rpc_response = None
    /\ rpc_result = Pending
DevIdle == dev_args = << >> /\ dev_info = << >>
AvIdle ==
    /\ av_pc = "idle"
    /\ av_ip = "none"
    /\ av_responses = << >>
    /\ av_data = Pending
    /\ av_miner_data = Pending
FacIdle ==
    /\ search_makes = None
    /\ search_firmwares = None
    /\ fac_pc = "idle"
    /\ fac_op = <<"none", "none">>
    /\ fac_commands = << >>
    /\ fac_spawned = << >>
BtIdle == bt_fw_ver = None /\ bt_version = Pending /\ bt_backend = Pending
LuxIdle ==
    /\ lux_call = None /\ lux_session_answer = None /\ lux_logon_answer = None
    /\ lux_pc = "idle" /\ lux_token = Pending /\ lux_written = << >> /\ lux_result = Pending
LhIdle == lh_boards = None /\ lh_chips = None /\ lh_data = None /\ lh_result = Pending
MpIdle == mp_data = None /\ mp_result = Pending
\* every part but one stays as it starts
IdleExcept(part) ==
    /\ IF part = "mp" THEN TRUE ELSE MpIdle
    /\ IF part = "lh" THEN TRUE ELSE LhIdle
    /\ IF part = "lux" THEN TRUE ELSE LuxIdle
    /\ IF part = "bt" THEN TRUE ELSE BtIdle
    /\ IF part = "fac" THEN TRUE ELSE FacIdle
    /\ IF part = "av" THEN TRUE ELSE AvIdle
    /\ IF part = "dev" THEN TRUE ELSE DevIdle
    /\ IF part = "rpc" THEN TRUE ELSE RpcIdle
    /\ IF part = "vn" THEN TRUE ELSE VnIdle
    /\ IF part = "sock" THEN TRUE ELSE SockIdle
    /\ IF part = "web" THEN TRUE ELSE WebIdle
    /\ IF part = "model" THEN TRUE ELSE ModelIdle
    /\ IF part = "disc" THEN TRUE ELSE DiscIdle
    /\ IF part = "coll" THEN TRUE ELSE CollIdle
    /\ IF part = "ext" THEN TRUE ELSE ExtIdle
    /\ IF part = "scan" THEN TRUE ELSE ScanIdle

(***************************************************************************)
(* Text helpers                                                            *)
(***************************************************************************)
LowerLetters == <<"a","b","c","d","e","f","g","h","i","j","k","l","m",
                  "n","o","p","q","r","s","t","u","v","w","x","y","z">>
UpperLetters == <<"A","B","C","D","E","F","G","H","I","J","K","L","M",
                  "N","O","P","Q","R","S","T","U","V","W","X","Y","Z">>

\* char::to_uppercase on the ASCII range
UpperChar(c) ==
    IF \E i \in 1..26 : LowerLetters[i] = c
    THEN UpperLetters[CHOOSE i \in 1..26 : LowerLetters[i] = c]
    ELSE c

\* str::to_uppercase
to_uppercase(s) == [i \in 1..Len(s) |-> UpperChar(s[i])]

LowerChar(c) ==
    IF \E i \in 1..26 : UpperLetters[i] = c
    THEN LowerLetters[CHOOSE i \in 1..26 : UpperLetters[i] = c]
    ELSE c

\* str::to_lowercase (used only to spell responses, not by the classifiers)
to_lowercase(s) == [i \in 1..Len(s) |-> LowerChar(s[i])]

\* str::contains(pattern)
contains(s, t) ==
    \E i \in 1..(Len(s) + 1 - Len(t)) :
        \A j \in 1..Len(t) : s[i + j - 1] = t[j]

RECURSIVE Concat(_)
\* the concatenation of a sequence of texts
Concat(ss) == IF ss = <<>> THEN <<>> ELSE Head(ss) \o Concat(Tail(ss))

RECURSIVE Reverse(_)
Reverse(s) == IF s = <<>> THEN <<>> ELSE Reverse(Tail(s)) \o <<Head(s)>>

(***************************************************************************)
(* Device classification values (data/device/mod.rs)                       *)
(***************************************************************************)
MinerMake == {"AntMiner", "WhatsMiner", "AvalonMiner", "EPic", "Braiins", "BitAxe"}
MinerFirmware == {"Stock", "BraiinsOS", "VNish", "EPic", "HiveOS", "LuxOS",
                  "Marathon", "MSKMiner"}

\* a classification Option<(Option<MinerMake>, Option<MinerFirmware>)>
Class(make, firmware) == Some(<<make, firmware>>)

(***************************************************************************)
(* parse_type_from_socket                                                  *)
(***************************************************************************)
T_BOSMINER == <<"B","O","S","M","I","N","E","R">>
T_BOSER == <<"B","O","S","E","R">>
T_LUXMINER == <<"L","U","X","M","I","N","E","R">>
T_BITMICRO == <<"B","I","T","M","I","C","R","O">>
T_BTMINER == <<"B","T","M","I","N","E","R">>
T_ANTMINER == <<"A","N","T","M","I","N","E","R">>
T_DEVDETAILS == <<"D","E","V","D","E","T","A","I","L","S">>
T_AVALON == <<"A","V","A","L","O","N">>
T_VNISH == <<"V","N","I","S","H">>

parse_type_from_socket_nocase(json) ==
    LET json_string == json
    IN  IF contains(json_string, T_BOSMINER) \/ contains(json_string, T_BOSER)
        THEN Class(None, Some("BraiinsOS"))
        ELSE IF contains(json_string, T_LUXMINER)
        THEN Class(None, Some("LuxOS"))
        ELSE IF contains(json_string, T_BITMICRO) \/ contains(json_string, T_BTMINER)
        THEN Class(Some("WhatsMiner"), Some("Stock"))
        ELSE IF contains(json_string, T_ANTMINER) /\ ~contains(json_string, T_DEVDETAILS)
        THEN Class(Some("AntMiner"), Some("Stock"))
        ELSE IF contains(json_string, T_AVALON)
        THEN Class(Some("AvalonMiner"), Some("Stock"))
        ELSE IF contains(json_string, T_VNISH)
        THEN Class(None, Some("VNish"))
        ELSE None

parse_type_from_socket_noexclusion(json) ==
    LET json_string == to_uppercase(json)
    IN  IF contains(json_string, T_BOSMINER) \/ contains(json_string, T_BOSER)
        THEN Class(None, Some("BraiinsOS"))
        ELSE IF contains(json_string, T_LUXMINER)
        THEN Class(None, Some("LuxOS"))
        ELSE IF contains(json_string, T_BITMICRO) \/ contains(json_string, T_BTMINER)
        THEN Class(Some("WhatsMiner"), Some("Stock"))
        ELSE IF contains(json_string, T_ANTMINER)
        THEN Class(Some("AntMiner"), Some("Stock"))
        ELSE IF contains(json_string, T_AVALON)
        THEN Class(Some("AvalonMiner"), Some("Stock"))
        ELSE IF contains(json_string, T_VNISH)
        THEN Class(None, Some("VNish"))
        ELSE None

\* json is response.to_string(); the match arms are tried top to bottom
parse_type_from_socket(json) ==
    LET json_string == to_uppercase(json)
    IN  IF contains(json_string, T_BOSMINER) \/ contains(json_string, T_BOSER)
        THEN Class(None, Some("BraiinsOS"))
        ELSE IF contains(json_string, T_LUXMINER)
        THEN Class(None, Some("LuxOS"))
        ELSE IF contains(json_string, T_BITMICRO) \/ contains(json_string, T_BTMINER)
        THEN Class(Some("WhatsMiner"), Some("Stock"))
        ELSE IF contains(json_string, T_ANTMINER) /\ ~contains(json_string, T_DEVDETAILS)
        THEN Class(Some("AntMiner"), Some("Stock"))
        ELSE IF contains(json_string, T_AVALON)
        THEN Class(Some("AvalonMiner"), Some("Stock"))
        ELSE IF contains(json_string, T_VNISH)
        THEN Class(None, Some("VNish"))
        ELSE None

(***************************************************************************)
(* RPC responses: a JSON document whose strings are vendor words.  The     *)
(* words are spelt as devices print them; a response holds any subset of   *)
(* them, in either order, in the vendor's, upper or lower case.            *)
(***************************************************************************)
SocketWordOrder == <<"BOSMINER", "BOSER", "LUXMINER", "BITMICRO", "BTMINER",
                     "ANTMINER", "DEVDETAILS", "AVALON", "VNISH">>
SocketWords == {SocketWordOrder[i] : i \in 1..Len(SocketWordOrder)}

SocketSpelling(w) ==
    CASE w = "BOSMINER"   -> <<"b","o","s","m","i","n","e","r">>
      [] w = "BOSER"      -> <<"b","o","s","e","r">>
      [] w = "LUXMINER"   -> <<"l","u","x","m","i","n","e","r">>
      [] w = "BITMICRO"   -> <<"B","i","t","m","i","c","r","o">>
      [] w = "BTMINER"    -> <<"b","t","m","i","n","e","r">>
      [] w = "ANTMINER"   -> <<"A","n","t","m","i","n","e","r">>
      [] w = "DEVDETAILS" -> <<"D","E","V","D","E","T","A","I","L","S">>
      [] w = "AVALON"     -> <<"A","v","a","l","o","n">>
      [] w = "VNISH"      -> <<"v","n","i","s","h">>

Letters == {"vendor", "upper", "lower"}
Orders == {"forward", "backward"}

Respell(s, letters) ==
    CASE letters = "vendor" -> s
      [] letters = "upper"  -> to_uppercase(s)
      [] letters = "lower"  -> to_lowercase(s)

\* serde_json::Value::to_string of {"STATUS":[...],"k":"<word>",...}: each
\* word is a JSON string of the document, between quotes and commas
SocketToString(r) ==
    LET inOrder == SelectSeq(SocketWordOrder, LAMBDA w : w \in r.tokens)
        ws == IF r.order = "forward" THEN inOrder ELSE Reverse(inOrder)
        field(w) == <<"\"">> \o Respell(SocketSpelling(w), r.letters) \o <<"\"", ",">>
    IN  <<"{", "\"", "S", "T", "A", "T", "U", "S", "\"", ":">>
        \o Concat([i \in 1..Len(ws) |-> field(ws[i])]) \o <<"}">>

SocketResponses ==
    [tokens : SUBSET SocketWords, letters : Letters, order : Orders]

InitSocket ==
    /\ sock_response \in SocketResponses
    /\ sock_result = Pending
    /\ IdleExcept("sock")

ParseSocket ==
    /\ sock_result = Pending
    /\ sock_result' = Done(parse_type_from_socket(SocketToString(sock_response)))
    /\ UNCHANGED <<sock_response, notSock>>

NextSocket == ParseSocket

SpecSocket == InitSocket /\ [][NextSocket]_vars

(***************************************************************************)
(* Claims on parse_type_from_socket (checked under SpecSocket)             *)
(***************************************************************************)
\* the rule order as the specification words it, over the vendor words a
\* response holds: <<words of which one must occur, words that must not, result>>
SocketRules ==
    << <<{"BOSMINER", "BOSER"}, {}, Class(None, Some("BraiinsOS"))>>,
       <<{"LUXMINER"}, {}, Class(None, Some("LuxOS"))>>,
       <<{"BITMICRO", "BTMINER"}, {}, Class(Some("WhatsMiner"), Some("Stock"))>>,
       <<{"ANTMINER"}, {"DEVDETAILS"}, Class(Some("AntMiner"), Some("Stock"))>>,
       <<{"AVALON"}, {}, Class(Some("AvalonMiner"), Some("Stock"))>>,
       <<{"VNISH"}, {}, Class(None, Some("VNish"))>> >>

SocketRuleHits(words) ==
    {i \in 1..Len(SocketRules) :
        SocketRules[i][1] \cap words # {} /\ SocketRules[i][2] \cap words = {}}

FirstSocketRule(words) ==
    IF SocketRuleHits(words) = {} THEN None
    ELSE SocketRules[CHOOSE i \in SocketRuleHits(words) :
                        \A j \in SocketRuleHits(words) : i <= j][3]

\* C6: whatever the letter case and the order of the vendor words in an RPC
\* response, the classification is the result of the earliest rule of the
\* order BOSMINER/BOSER, LUXMINER, BITMICRO/BTMINER, ANTMINER without
\* DEVDETAILS, AVALON, VNISH that the words satisfy, and None if none does.
C6_SocketRuleOrder ==
    sock_result # Pending =>
        sock_result = Done(FirstSocketRule(sock_response.tokens))

\* C6 witness: a lower-case response holding antminer, avalon and vnish is
\* classified (AntMiner, Stock), the earliest of the three rules.
C6_Witness ==
    /\ sock_result = Done(Class(Some("AntMiner"), Some("Stock")))
    /\ sock_response.tokens = {"ANTMINER", "AVALON", "VNISH"}
    /\ sock_response.letters = "lower"

\* C7: a response holding both ANTMINER and DEVDETAILS is never classified
\* (AntMiner, Stock).
C7_DevdetailsExclusion ==
    (sock_result # Pending /\ {"ANTMINER", "DEVDETAILS"} \subseteq sock_response.tokens)
        => sock_result # Done(Class(Some("AntMiner"), Some("Stock")))

\* C7 witness: a response holding ANTMINER, DEVDETAILS and AVALON falls through
\* the AntMiner rule to the later Avalon rule.
C7_Witness ==
    /\ sock_response.tokens = {"ANTMINER", "DEVDETAILS", "AVALON"}
    /\ sock_result = Done(Class(Some("AvalonMiner"), Some("Stock")))

(***************************************************************************)
(* parse_type_from_web                                                     *)
(***************************************************************************)
\* bytes of a header value outside visible ASCII (obs-text, 0x80..0xFF)
OpaqueBytes == {"0xE9"}

\* HeaderValue::to_str: Err when a byte is not visible ASCII
to_str(header) ==
    IF \E i \in 1..Len(header) : header[i] \in OpaqueBytes
    THEN <<"Err">>
    ELSE <<"Ok", header>>

W_REALM == <<"r","e","a","l","m","=","\"","a","n","t","M","i","n","e","r">>
W_BRAIINS == <<"B","r","a","i","i","n","s"," ","O","S">>
W_LUXOR == <<"L","u","x","o","r"," ","F","i","r","m","w","a","r","e">>
W_AXEOS == <<"A","x","e","O","S">>
W_EPIC == <<"M","i","n","e","r"," ","W","e","b"," ","D","a","s","h","b","o","a","r","d">>
W_AVALON == <<"A","v","a","l","o","n">>
W_ANTHILL == <<"A","n","t","h","i","l","l","O","S">>
W_HTTPS == <<"h","t","t","p","s",":","/","/">>
W_LUCI == <<"/","c","g","i","-","b","i","n","/","l","u","c","i">>

\* the match of parse_type_from_web on the text of the body and of the two
\* headers ("" for an absent header)
web_match(resp_text, auth_header, redirect_header, resp_status) ==
    IF resp_status = 401 /\ contains(auth_header, W_REALM)
    THEN Class(Some("AntMiner"), Some("Stock"))
    ELSE IF contains(resp_text, W_BRAIINS)
    THEN Class(None, Some("BraiinsOS"))
    ELSE IF contains(resp_text, W_LUXOR)
    THEN Class(None, Some("LuxOS"))
    ELSE IF contains(resp_text, W_AXEOS)
    THEN Class(Some("BitAxe"), Some("Stock"))
    ELSE IF contains(resp_text, W_EPIC)
    THEN Class(None, Some("EPic"))
    ELSE IF contains(resp_text, W_AVALON)
    THEN Class(Some("AvalonMiner"), Some("Stock"))
    ELSE IF contains(resp_text, W_ANTHILL)
    THEN Class(None, Some("VNish"))
    ELSE IF (contains(redirect_header, W_HTTPS) /\ resp_status = 307)
            \/ contains(resp_text, W_LUCI)
    THEN Class(Some("WhatsMiner"), Some("Stock"))
    ELSE None

\* response is (text, headers, status); headers.get(name) is None or
\* Some(value); header.to_str().unwrap() panics on Err.  The outcome is
\* <<"Return", Option<..>>> or <<"Panic">>
parse_type_from_web(resp_text, www_authenticate, location, resp_status) ==
    LET auth == IF www_authenticate = None THEN <<"Ok", <<>>>>
                ELSE to_str(www_authenticate[2])
        redirect == IF location = None THEN <<"Ok", <<>>>>
                    ELSE to_str(location[2])
    IN  IF auth[1] = "Err" \/ redirect[1] = "Err"
        THEN Panic
        ELSE <<"Return", web_match(resp_text, auth[2], redirect[2], resp_status)>>

(***************************************************************************)
(* HTTP responses: a status, the two headers, and a body holding any       *)
(* subset of the vendor markers.                                           *)
(***************************************************************************)
WebMarkerOrder == <<"Braiins OS", "Luxor Firmware", "AxeOS", "Miner Web Dashboard",
                    "Avalon", "AnthillOS", "/cgi-bin/luci">>
WebMarkers == {WebMarkerOrder[i] : i \in 1..Len(WebMarkerOrder)}

WebSpelling(m) ==
    CASE m = "Braiins OS"          -> W_BRAIINS
      [] m = "Luxor Firmware"      -> W_LUXOR
      [] m = "AxeOS"               -> W_AXEOS
      [] m = "Miner Web Dashboard" -> W_EPIC
      [] m = "Avalon"              -> W_AVALON
      [] m = "AnthillOS"           -> W_ANTHILL
      [] m = "/cgi-bin/luci"       -> W_LUCI

\* the body: <html><p>marker</p>...</html>
WebBody(markers) ==
    LET ms == SelectSeq(WebMarkerOrder, LAMBDA m : m \in markers)
        para(m) == <<"<","p",">">> \o WebSpelling(m) \o <<"<","/","p",">">>
    IN  <<"<","h","t","m","l",">">> \o Concat([i \in 1..Len(ms) |-> para(ms[i])])
        \o <<"<","/","h","t","m","l",">">>

AuthHeaders == {"absent", "antMiner", "other", "opaque"}
LocationHeaders == {"absent", "https", "http", "opaque"}
Statuses == {200, 307, 401}

\* headers.get("www-authenticate")
AuthHeader(kind) ==
    CASE kind = "absent"   -> None
      [] kind = "antMiner" -> Some(<<"D","i","g","e","s","t"," ","r","e","a","l","m","=","\"",
                                     "a","n","t","M","i","n","e","r"," ","C","o","n","f","i",
                                     "g","u","r","a","t","i","o","n","\"">>)
      [] kind = "other"    -> Some(<<"B","a","s","i","c"," ","r","e","a","l","m","=","\"",
                                     "r","o","u","t","e","r","\"">>)
      [] kind = "opaque"   -> Some(<<"B","a","s","i","c"," ","r","e","a","l","m","=","\"",
                                     "c","a","f","0xE9","\"">>)

\* headers.get("location")
LocationHeader(kind) ==
    CASE kind = "absent" -> None
      [] kind = "https"  -> Some(<<"h","t","t","p","s",":","/","/","h","o","s","t","/">>)
      [] kind = "http"   -> Some(<<"h","t","t","p",":","/","/","h","o","s","t","/",
                                   "l","o","g","i","n">>)
      [] kind = "opaque" -> Some(<<"h","t","t","p",":","/","/","c","a","f","0xE9","/">>)

WebResponses ==
    [markers : SUBSET WebMarkers, status : Statuses, auth : AuthHeaders,
     location : LocationHeaders]

InitWeb ==
    /\ web_response \in WebResponses
    /\ web_result = Pending
    /\ IdleExcept("web")

ParseWeb ==
    /\ web_result = Pending
    /\ web_result' = parse_type_from_web(WebBody(web_response.markers),
                                         AuthHeader(web_response.auth),
                                         LocationHeader(web_response.location),
                                         web_response.status)
    /\ UNCHANGED <<web_response, notWeb>>

NextWeb == ParseWeb

SpecWeb == InitWeb /\ [][NextWeb]_vars

(***************************************************************************)
(* Claims on parse_type_from_web (checked under SpecWeb)                   *)
(***************************************************************************)
\* the rule order as the specification words it, over the status, the kind of
\* the two headers and the markers of the body
WebRuleHolds(i, r) ==
    CASE i = 1 -> r.status = 401 /\ r.auth = "antMiner"
      [] i = 2 -> "Braiins OS" \in r.markers
      [] i = 3 -> "Luxor Firmware" \in r.markers
      [] i = 4 -> "AxeOS" \in r.markers
      [] i = 5 -> "Miner Web Dashboard" \in r.markers
      [] i = 6 -> "Avalon" \in r.markers
      [] i = 7 -> "AnthillOS" \in r.markers
      [] i = 8 -> (r.location = "https" /\ r.status = 307) \/ "/cgi-bin/luci" \in r.markers

WebRuleResults ==
    << Class(Some("AntMiner"), Some("Stock")), Class(None, Some("BraiinsOS")),
       Class(None, Some("LuxOS")), Class(Some("BitAxe"), Some("Stock")),
       Class(None, Some("EPic")), Class(Some("AvalonMiner"), Some("Stock")),
       Class(None, Some("VNish")), Class(Some("WhatsMiner"), Some("Stock")) >>

FirstWebRule(r) ==
    LET hits == {i \in 1..Len(WebRuleResults) : WebRuleHolds(i, r)}
    IN  IF hits = {} THEN None
        ELSE WebRuleResults[CHOOSE i \in hits : \A j \in hits : i <= j]

\* what the probe contributes: a panic classifies nothing
WebClassification(outcome) == IF outcome = Panic THEN None ELSE outcome[2]

\* C8: the web classification of a response is the result of the earliest of
\* the eight rules (401 with realm antMiner, "Braiins OS", "Luxor Firmware",
\* "AxeOS", "Miner Web Dashboard", "Avalon", "AnthillOS", redirect to https
\* with 307 or /cgi-bin/luci) that the response matches, and None otherwise.
C8_WebRuleOrder ==
    web_result # Pending =>
        WebClassification(web_result) = FirstWebRule(web_response)

(***************************************************************************)
(* Model resolution (phase 2)                                              *)
(***************************************************************************)
\* a JSON field: <<"Absent">>, <<"Number">> or <<"String", text>>
Absent == <<"Absent">>
Number == <<"Number">>
String(s) == <<"String", s>>

\* serde_json::Value::as_str on the value a pointer finds
as_str(v) == IF v[1] = "String" THEN Some(v[2]) ELSE None

\* s.split("-") ... [0]: the text before the first hyphen
split_first(s) ==
    IF \E i \in 1..Len(s) : s[i] = "-"
    THEN SubSeq(s, 1, (CHOOSE i \in 1..Len(s) :
                          s[i] = "-" /\ \A j \in 1..(i - 1) : s[j] # "-") - 1)
    ELSE s

\* the variant names of enum AvalonMinerModel, which serde accepts
AvalonMinerModelNames ==
    <<<<<<"A","7","2","1">>, "A721">>,
       <<<<"A","7","4","1">>, "A741">>,
       <<<<"A","7","6","1">>, "A761">>,
       <<<<"A","8","2","1">>, "A821">>,
       <<<<"A","8","4","1">>, "A841">>,
       <<<<"A","8","5","1">>, "A851">>,
       <<<<"A","9","2","1">>, "A921">>,
       <<<<"A","1","0","2","6">>, "A1026">>,
       <<<<"A","1","0","4","7">>, "A1047">>,
       <<<<"A","1","0","6","6">>, "A1066">>,
       <<<<"A","1","1","2","6">>, "A1126">>,
       <<<<"A","1","1","6","6">>, "A1166">>,
       <<<<"A","1","2","4","6">>, "A1246">>,
       <<<<"A","1","5","6","6">>, "A1566">>,
       <<<<"N","a","n","o","3">>, "Nano3">>,
       <<<<"N","a","n","o","3","S">>, "Nano3S">>>>

\* the first entry of a table of <<text, variant>> whose text is s
Lookup(table, s) ==
    IF \E i \in 1..Len(table) : table[i][1] = s
    THEN Some(table[CHOOSE i \in 1..Len(table) : table[i][1] = s][2])
    ELSE None

\* impl FromStr for AvalonMinerModel: serde_json::from_value(String(s))
AvalonMinerModel_from_str(s) == Lookup(AvalonMinerModelNames, s)

\* the enumerations of the other makes are not part of this development:
\* one known model string each stands for them
AntMinerModel_from_str(s) ==
    IF s = <<"A","N","T","M","I","N","E","R"," ","S","1","9">> THEN Some("S19") ELSE None
WhatsMinerModel_from_str(s) ==
    IF s = <<"M","3","0","S">> THEN Some("M30S") ELSE None
BraiinsModel_from_str(s) ==
    IF s = <<"B","M","M","1","0","0">> THEN Some("BMM100") ELSE None

\* Option::map(MinerModel::<Make>)
MapModel(make, m) == IF m = None THEN None ELSE Some(<<make, m[2]>>)

\* MinerModelFactory::parse_model with self.make and self.firmware
parse_model(make, firmware, model_str) ==
    IF make = Some("AntMiner")
    THEN MapModel("AntMiner", AntMinerModel_from_str(model_str))
    ELSE IF make = Some("WhatsMiner")
    THEN MapModel("WhatsMiner", WhatsMinerModel_from_str(model_str))
    ELSE IF make = None
    THEN IF firmware = Some("BraiinsOS")
         THEN IF AntMinerModel_from_str(model_str) # None
              THEN MapModel("AntMiner", AntMinerModel_from_str(model_str))
              ELSE IF BraiinsModel_from_str(model_str) # None
              THEN MapModel("Braiins", BraiinsModel_from_str(model_str))
              ELSE None
         ELSE IF firmware = Some("LuxOS")
         THEN IF AntMinerModel_from_str(model_str) # None
              THEN MapModel("AntMiner", AntMinerModel_from_str(model_str))
              ELSE None
         ELSE None
    ELSE None

T_HYPHEN == <<"-">>
T_AVALONNANO == <<"A","V","A","L","O","N","N","A","N","O">>
T_AVALON0O == <<"A","V","A","L","O","N","0","O">>
T_AVALONMINER15 == <<"A","V","A","L","O","N","M","I","N","E","R"," ","1","5">>
T_AVALONMINER_SP == <<"A","V","A","L","O","N","M","I","N","E","R"," ">>

\* the model string get_model_avalonminer builds from the PROD field (and,
\* for the nano family, the MODEL field) of the version response
avalon_model_string(prod, json) ==
    LET upper == to_uppercase(prod)
        miner_model == IF contains(upper, T_HYPHEN) THEN split_first(upper) ELSE upper
    IN  IF miner_model \in {T_AVALONNANO, T_AVALON0O, T_AVALONMINER15}
           /\ as_str(json.MODEL) # None
        THEN T_AVALONMINER_SP \o to_uppercase(as_str(json.MODEL)[2])
        ELSE miner_model

\* factory/model/mod.rs: response is util::send_rpc_command(&ip, "version")
get_model_avalonminer(response) ==
    IF response = None THEN None
    ELSE LET json_data == response[2]
         IN  IF as_str(json_data.PROD) # None
             THEN parse_model(Some("AvalonMiner"), None,
                              avalon_model_string(as_str(json_data.PROD)[2], json_data))
             ELSE IF as_str(json_data.MODEL) # None
             THEN parse_model(Some("AvalonMiner"), None,
                              to_uppercase(split_first(as_str(json_data.MODEL)[2])))
             ELSE None

\* factory/model/avalonminer.rs: the match on the model string
AvalonModelTable ==
    <<<<<<"A","V","A","L","O","N","M","I","N","E","R"," ","7","2","1">>, "A721">>,
       <<<<"A","V","A","L","O","N","M","I","N","E","R"," ","7","4","1">>, "A741">>,
       <<<<"A","V","A","L","O","N","M","I","N","E","R"," ","7","6","1">>, "A761">>,
       <<<<"A","V","A","L","O","N","M","I","N","E","R"," ","8","2","1">>, "A821">>,
       <<<<"A","V","A","L","O","N","M","I","N","E","R"," ","8","4","1">>, "A841">>,
       <<<<"A","V","A","L","O","N","M","I","N","E","R"," ","8","5","1">>, "A851">>,
       <<<<"A","V","A","L","O","N","M","I","N","E","R"," ","9","2","1">>, "A921">>,
       <<<<"A","V","A","L","O","N","M","I","N","E","R"," ","1","0","2","6">>, "A1026">>,
       <<<<"A","V","A","L","O","N","M","I","N","E","R"," ","1","0","4","7">>, "A1047">>,
       <<<<"A","V","A","L","O","N","M","I","N","E","R"," ","1","0","6","6">>, "A1066">>,
       <<<<"A","V","A","L","O","N","M","I","N","E","R"," ","1","1","2","6">>, "A1126">>,
       <<<<"A","V","A","L","O","N","M","I","N","E","R"," ","1","1","6","6">>, "A1166">>,
       <<<<"A","V","A","L","O","N","M","I","N","E","R"," ","1","2","4","6">>, "A1246">>,
       <<<<"A","V","A","L","O","N","M","I","N","E","R"," ","1","5","6","6">>, "A1566">>,
       <<<<"A","V","A","L","O","N","M","I","N","E","R"," ","N","A","N","O","3">>, "Nano3">>,
       <<<<"A","V","A","L","O","N","M","I","N","E","R"," ","N","A","N","O","3","S">>, "Nano3S">>>>

\* factory/model/avalonminer.rs: the resolver that maps the string itself
get_model_avalonminer_table(response) ==
    IF response = None THEN None
    ELSE LET data == response[2]
         IN  IF as_str(data.PROD) = None THEN None
             ELSE MapModel("AvalonMiner",
                           Lookup(AvalonModelTable,
                                  avalon_model_string(as_str(data.PROD)[2], data)))

(***************************************************************************)
(* Version responses of an Avalon device                                   *)
(***************************************************************************)
ProdTexts ==
    {<<"A","V","A","L","O","N","1","0","6","6","-","s","o","m","e","t","h","i","n","g">>,
       <<"A","v","a","l","o","n","M","i","n","e","r"," ","1","0","6","6","-","A">>,
       <<"A","v","a","l","o","n","M","i","n","e","r"," ","1","2","4","6">>,
       <<"A","v","a","l","o","n","N","a","n","o">>,
       <<"A","v","a","l","o","n","0","O","-","1">>,
       <<"A","v","a","l","o","n","M","i","n","e","r"," ","1","5">>,
       <<"A","1","0","6","6">>,
       <<"A","v","a","l","o","n","M","i","n","e","r"," ","9","9","9","9">>}
ModelTexts ==
    {<<"N","a","n","o","3","s">>,
       <<"1","0","6","6","-","A">>,
       <<"A","1","2","4","6","-","x">>}

VersionResponses ==
    {None} \cup
    {Some([PROD |-> p, MODEL |-> m]) :
        p \in {Absent, Number} \cup {String(x) : x \in ProdTexts},
        m \in {Absent, Number} \cup {String(x) : x \in ModelTexts}}

InitModel ==
    /\ version_response \in VersionResponses
    /\ model_factory = Pending
    /\ model_table = Pending
    /\ IdleExcept("model")

\* MinerMake::AvalonMiner resolved through MinerModelFactory
ResolveFactory ==
    /\ model_factory = Pending
    /\ model_factory' = Done(get_model_avalonminer(version_response))
    /\ UNCHANGED <<version_response, model_table, notModel>>

\* MinerMake::AvalonMiner resolved through the table of model/avalonminer.rs
ResolveTable ==
    /\ model_table = Pending
    /\ model_table' = Done(get_model_avalonminer_table(version_response))
    /\ UNCHANGED <<version_response, model_factory, notModel>>

NextModel == ResolveFactory \/ ResolveTable

SpecModel == InitModel /\ [][NextModel]_vars

(***************************************************************************)
(* Claims on the Avalon model resolution (checked under SpecModel)         *)
(***************************************************************************)
AVALON1066_SOMETHING ==
    <<"A","V","A","L","O","N","1","0","6","6","-","s","o","m","e","t","h","i","n","g">>
AVALON1066 == <<"A","V","A","L","O","N","1","0","6","6">>

\* C9: a version response whose PROD is "AVALON1066-something" is normalised
\* to "AVALON1066" and model resolution returns Some(model), not None.
C9_Avalon1066Resolves ==
    (version_response # None /\ version_response[2].PROD = String(AVALON1066_SOMETHING))
        => /\ avalon_model_string(AVALON1066_SOMETHING, version_response[2]) = AVALON1066
           /\ model_factory # Pending => model_factory[2] # None
           /\ model_table # Pending => model_table[2] # None

(***************************************************************************)
(* The resolvers of factory/model/mod.rs.  reply is what the device sends  *)
(* back to the follow-up query: None (no answer), or Some of                *)
(* [valid, model, fw_ver, PROD, MODEL]: whether the body is JSON, the field *)
(* naming the model in the resolver's own query, and the fields of the     *)
(* whatsminer and avalon version answers.  A resolver returns              *)
(* <<"Return", Option<MinerModel>>> or panics.                             *)
(***************************************************************************)
Return(x) == <<"Return", x>>

\* Option<&str>::unwrap_or("")
unwrap_or_empty(o) == IF o = None THEN <<>> ELSE o[2]

StartsWith(s, t) == Len(t) <= Len(s) /\ SubSeq(s, 1, Len(t)) = t

RECURSIVE replace(_, _, _)
\* str::replace(from, to), from not empty
replace(s, from, to) ==
    IF s = <<>> THEN <<>>
    ELSE IF StartsWith(s, from)
    THEN to \o replace(SubSeq(s, Len(from) + 1, Len(s)), from, to)
    ELSE <<Head(s)>> \o replace(Tail(s), from, to)

Digits == {"0","1","2","3","4","5","6","7","8","9"}
\* str::parse::<u32>() succeeds on the date parts (plain digits)
parses_u32(s) == s # <<>> /\ \A i \in 1..Len(s) : s[i] \in Digits

get_model_vnish(reply) ==
    IF reply = None THEN Return(None)
    ELSE IF ~reply[2].valid THEN Return(None)
    ELSE Return(parse_model(Some("AntMiner"), None,
                            unwrap_or_empty(as_str(reply[2].model))))

get_model_epic(reply) ==
    IF reply = None THEN Return(None)
    ELSE IF ~reply[2].valid THEN Return(None)
    ELSE Return(parse_model(None, Some("EPic"),
                            to_uppercase(unwrap_or_empty(as_str(reply[2].model)))))

get_model_antminer(reply) ==
    IF reply = None THEN Return(None)
    ELSE IF ~reply[2].valid THEN Return(None)
    ELSE Return(parse_model(Some("AntMiner"), None,
                            to_uppercase(unwrap_or_empty(as_str(reply[2].model)))))

\* get_model_whatsminer_v2 and _v3 (model/whatsminer.rs): the model string of
\* the version-specific query, matched against the WhatsMiner enumeration
get_model_whatsminer_v(reply) ==
    IF as_str(reply[2].model) = None THEN Return(None)
    ELSE Return(parse_model(Some("WhatsMiner"), None,
                            to_uppercase(as_str(reply[2].model)[2])))

\* the RPC answers are JSON whenever there is an answer
get_model_whatsminer(reply) ==
    IF reply = None THEN Return(None)
    ELSE LET fw_version == as_str(reply[2].fw_ver)
         IN  IF fw_version = None THEN Return(None)
             ELSE IF Len(fw_version[2]) < 8 THEN Return(None)
             ELSE LET date_part == SubSeq(fw_version[2], 1, 8)
                  IN  IF /\ parses_u32(SubSeq(date_part, 1, 4))
                         /\ parses_u32(SubSeq(date_part, 5, 6))
                         /\ parses_u32(SubSeq(date_part, 7, 8))
                      THEN get_model_whatsminer_v(reply)
                      ELSE Return(None)

\* send_web_command(..).await.unwrap(): no answer is a panic
get_model_bitaxe(reply) ==
    IF reply = None THEN Panic
    ELSE IF ~reply[2].valid THEN Return(None)
    ELSE IF as_str(reply[2].model) = None THEN Return(None)
    ELSE Return(parse_model(Some("BitAxe"), None, as_str(reply[2].model)[2]))

get_model_luxos(reply) ==
    IF reply = None THEN Return(None)
    ELSE IF as_str(reply[2].model) = None THEN Return(None)
    ELSE Return(parse_model(None, Some("LuxOS"), to_uppercase(as_str(reply[2].model)[2])))

T_BITMAIN_SP == <<"B","I","T","M","A","I","N"," ">>
T_S19XP == <<"S","1","9","X","P">>
T_S19_XP == <<"S","1","9"," ","X","P">>

get_model_braiins_os(reply) ==
    IF reply = None THEN Return(None)
    ELSE IF as_str(reply[2].model) = None THEN Return(None)
    ELSE Return(parse_model(None, Some("BraiinsOS"),
                    replace(replace(to_uppercase(as_str(reply[2].model)[2]),
                                    T_BITMAIN_SP, <<>>),
                            T_S19XP, T_S19_XP)))

\* impl ModelSelection for MinerMake: the resolver of the make
make_get_model(make, reply) ==
    CASE make = "AntMiner"    -> get_model_antminer(reply)
      [] make = "WhatsMiner"  -> get_model_whatsminer(reply)
      [] make = "BitAxe"      -> get_model_bitaxe(reply)
      [] make = "AvalonMiner" ->
            Return(get_model_avalonminer(
                IF reply = None THEN None
                ELSE Some([PROD |-> reply[2].PROD, MODEL |-> reply[2].MODEL])))
      [] OTHER                -> Return(None)

\* impl ModelSelection for MinerFirmware: the resolver of the firmware
firmware_get_model(firmware, reply) ==
    CASE firmware = "BraiinsOS" -> get_model_braiins_os(reply)
      [] firmware = "LuxOS"     -> get_model_luxos(reply)
      [] firmware = "VNish"     -> get_model_vnish(reply)
      [] firmware = "EPic"      -> get_model_epic(reply)
      [] OTHER                  -> Return(None)

\* what a device may answer to the follow-up query
ReplyModelTexts ==
    {<<"A","n","t","m","i","n","e","r"," ","S","1","9">>,
     <<"M","3","0","S">>,
     <<"E","S","P","-","M","i","n","e","r">>}
ModelReplies ==
    {None} \cup
    {Some([valid |-> v, model |-> m, fw_ver |-> f, PROD |-> p, MODEL |-> Absent]) :
        v \in BOOLEAN,
        m \in {Absent} \cup {String(x) : x \in ReplyModelTexts},
        f \in {Absent, String(<<"2","0","2","4","1","1","0","1",".","1","6",".","R","E","L">>)},
        p \in {Absent, String(<<"A","v","a","l","o","n","M","i","n","e","r"," ","1","0","6","6","-","A">>)}}

(***************************************************************************)
(* MinerFactory::get_miner                                                 *)
(***************************************************************************)
MaxProbes == 3

\* the discovery commands of the searched makes and firmwares: RPC queries
\* and HTTP fetches
DiscoveryCommands == 1..MaxProbes
CommandKind(c) == IF c % 2 = 1 THEN "RPC" ELSE "WebAPI"

\* what send_rpc_command may yield for a probe: None, or a response
RpcReplies ==
    {None} \cup
    {Some([tokens |-> ws, letters |-> "vendor", order |-> "forward"]) :
        ws \in {{}, {"AVALON"}, {"ANTMINER", "DEVDETAILS", "VNISH"}}}

\* what send_web_command may yield for a probe: None, or a response
WebReplies ==
    {None,
     Some([markers |-> {"AxeOS"}, status |-> 200, auth |-> "absent", location |-> "absent"]),
     Some([markers |-> {}, status |-> 401, auth |-> "antMiner", location |-> "absent"]),
     Some([markers |-> {"Braiins OS"}, status |-> 200, auth |-> "absent",
           location |-> "absent"]),
     Some([markers |-> {"Braiins OS"}, status |-> 200, auth |-> "absent",
           location |-> "opaque"])}

ProbeReplies(c) == IF CommandKind(c) = "RPC" THEN RpcReplies ELSE WebReplies

\* the probe task: its output <<"Return", Option<..>>>, or a panic
get_miner_type_from_command(kind, reply) ==
    IF kind = "RPC"
    THEN IF reply = None THEN Return(None)
         ELSE Return(parse_type_from_socket(SocketToString(reply[2])))
    ELSE IF kind = "WebAPI"
    THEN IF reply = None THEN Return(None)
         ELSE parse_type_from_web(WebBody(reply[2].markers), AuthHeader(reply[2].auth),
                                  LocationHeader(reply[2].location), reply[2].status)
    ELSE Return(None)

\* join_next() yielded Ok(Some(result))
Classifies(out) == out # Panic /\ out # Pending /\ out[2] # None

InitDiscovery ==
    /\ pc = "start"
    /\ commands \in SUBSET DiscoveryCommands
    /\ task = [c \in DiscoveryCommands |-> "unspawned"]
    /\ output = [c \in DiscoveryCommands |-> Pending]
    /\ notified = <<>>
    /\ finish_order = <<>>
    /\ tasks = Pending
    /\ timeout = FALSE
    /\ miner_info = Pending
    /\ model_reply = Pending
    /\ get_miner_result = Pending
    /\ IdleExcept("disc")

\* lines 138-158: one task per command, the timer, the loop task
Spawn ==
    /\ pc = "start"
    /\ task' = [c \in DiscoveryCommands |-> IF c \in commands THEN "running" ELSE task[c]]
    /\ pc' = "select"
    /\ UNCHANGED <<commands, output, notified, finish_order, tasks, timeout, miner_info,
                   model_reply, get_miner_result, notDisc>>

\* a probe task whose panic is raised in get_miner
ProbeFinish_propagates(c) ==
    /\ task[c] = "running"
    /\ \E reply \in ProbeReplies(c) :
          LET out == get_miner_type_from_command(CommandKind(c), reply)
          IN  /\ output' = [output EXCEPT ![c] = out]
              /\ IF out = Panic
                 THEN pc' = "panicked" /\ get_miner_result' = Panic
                 ELSE UNCHANGED <<pc, get_miner_result>>
    /\ task' = [task EXCEPT ![c] = "finished"]
    /\ notified' = Append(notified, c)
    /\ finish_order' = Append(finish_order, c)
    /\ UNCHANGED <<commands, tasks, timeout, miner_info, model_reply, notDisc>>

\* a probe task runs to its end: the device answered, or the transport gave up
ProbeFinish(c) ==
    /\ task[c] = "running"
    /\ \E reply \in ProbeReplies(c) :
          output' = [output EXCEPT ![c] = get_miner_type_from_command(CommandKind(c), reply)]
    /\ task' = [task EXCEPT ![c] = "finished"]
    /\ notified' = Append(notified, c)
    /\ finish_order' = Append(finish_order, c)
    /\ UNCHANGED <<pc, commands, tasks, timeout, miner_info, model_reply,
                   get_miner_result, notDisc>>

\* the loop task has returned and dropped the JoinSet: a task still running
\* is aborted
ProbeAborted(c) ==
    /\ task[c] = "running"
    /\ tasks # Pending
    /\ task' = [task EXCEPT ![c] = "aborted"]
    /\ UNCHANGED <<pc, commands, output, notified, finish_order, tasks, timeout,
                   miner_info, model_reply, get_miner_result, notDisc>>

JoinNext_abort_on_error ==
    /\ pc # "start"
    /\ tasks = Pending
    /\ notified # <<>>
    /\ LET c == Head(notified)
       IN  /\ task' = [task EXCEPT ![c] = "joined"]
           /\ tasks' = IF Classifies(output[c]) THEN Return(output[c][2])
                       ELSE IF output[c] = Panic THEN Return(None)
                       ELSE tasks
    /\ notified' = Tail(notified)
    /\ UNCHANGED <<pc, commands, output, finish_order, timeout, miner_info, model_reply,
                   get_miner_result, notDisc>>

JoinNext_wait_for_all ==
    /\ pc # "start"
    /\ tasks = Pending
    /\ notified # <<>>
    /\ LET c == Head(notified)
       IN  /\ task' = [task EXCEPT ![c] = "joined"]
           /\ tasks' = IF Classifies(output[c])
                          /\ \A d \in commands \ {c} : task[d] \in {"joined", "finished"}
                       THEN Return(output[c][2])
                       ELSE tasks
    /\ notified' = Tail(notified)
    /\ UNCHANGED <<pc, commands, output, finish_order, timeout, miner_info, model_reply,
                   get_miner_result, notDisc>>

\* lines 149-154: join_next() yields the oldest finished task; Ok(Some(result))
\* ends the loop, anything else (Ok(None), Err(JoinError)) continues it
JoinNext ==
    /\ pc # "start"
    /\ tasks = Pending
    /\ notified # <<>>
    /\ LET c == Head(notified)
       IN  /\ task' = [task EXCEPT ![c] = "joined"]
           /\ tasks' = IF Classifies(output[c]) THEN Return(output[c][2]) ELSE tasks
    /\ notified' = Tail(notified)
    /\ UNCHANGED <<pc, commands, output, finish_order, timeout, miner_info, model_reply,
                   get_miner_result, notDisc>>

\* a loop that does not look at the set being empty
JoinSetEmpty_never ==
    /\ FALSE
    /\ UNCHANGED vars

\* lines 146-148: discovery_tasks.is_empty()
JoinSetEmpty ==
    /\ pc # "start"
    /\ tasks = Pending
    /\ \A c \in commands : task[c] = "joined"
    /\ tasks' = Return(None)
    /\ UNCHANGED <<pc, commands, task, output, notified, finish_order, timeout, miner_info,
                   model_reply, get_miner_result, notDisc>>

TimerElapse_never ==
    /\ FALSE
    /\ UNCHANGED vars

\* line 143: sleep(MAX_WAIT_TIME) elapses
TimerElapse ==
    /\ pc = "select"
    /\ ~timeout
    /\ timeout' = TRUE
    /\ UNCHANGED <<pc, commands, task, output, notified, finish_order, tasks, miner_info,
                   model_reply, get_miner_result, notDisc>>

\* lines 169-181, up to the await of get_model: info is the value of select!
AfterSelect(info) ==
    /\ miner_info' = info
    /\ IF info # None /\ (info[2][1] # None \/ info[2][2] # None)
       THEN pc' = "get_model" /\ UNCHANGED get_miner_result
       ELSE pc' = "returned" /\ get_miner_result' = <<"Ok", None>>

\* lines 161-163: the loop task is ready
SelectTasks ==
    /\ pc = "select"
    /\ tasks # Pending
    /\ AfterSelect(tasks[2])
    /\ UNCHANGED <<commands, task, output, notified, finish_order, tasks, timeout,
                   model_reply, notDisc>>

\* lines 164-166: the timer is ready
SelectTimeout ==
    /\ pc = "select"
    /\ timeout
    /\ AfterSelect(None)
    /\ UNCHANGED <<commands, task, output, notified, finish_order, tasks, timeout,
                   model_reply, notDisc>>

\* phase 2 with the firmware's resolver tried before the make's
GetModel_firmware_first ==
    /\ pc = "get_model"
    /\ \E reply \in ModelReplies :
          LET make == miner_info[2][1]
              firmware == miner_info[2][2]
              model == IF firmware # None THEN firmware_get_model(firmware[2], reply)
                       ELSE make_get_model(make[2], reply)
          IN  /\ model_reply' = reply
              /\ IF model = Panic
                 THEN pc' = "panicked" /\ get_miner_result' = Panic
                 ELSE /\ pc' = "returned"
                      /\ get_miner_result' = <<"Ok", Some(<<model[2], firmware>>)>>
    /\ UNCHANGED <<commands, task, output, notified, finish_order, tasks, timeout,
                   miner_info, notDisc>>

\* lines 171-178: the follow-up query is answered (or fails) and get_model
\* returns; the make's resolver if there is a make, else the firmware's
GetModel ==
    /\ pc = "get_model"
    /\ \E reply \in ModelReplies :
          LET make == miner_info[2][1]
              firmware == miner_info[2][2]
              model == IF make # None THEN make_get_model(make[2], reply)
                       ELSE firmware_get_model(firmware[2], reply)
          IN  /\ model_reply' = reply
              /\ IF model = Panic
                 THEN pc' = "panicked" /\ get_miner_result' = Panic
                 ELSE /\ pc' = "returned"
                      /\ get_miner_result' = <<"Ok", Some(<<model[2], firmware>>)>>
    /\ UNCHANGED <<commands, task, output, notified, finish_order, tasks, timeout,
                   miner_info, notDisc>>

Next ==
    \/ Spawn
    \/ \E c \in DiscoveryCommands : ProbeFinish(c)
    \/ \E c \in DiscoveryCommands : ProbeAborted(c)
    \/ JoinNext
    \/ JoinSetEmpty
    \/ TimerElapse
    \/ SelectTasks
    \/ SelectTimeout
    \/ GetModel

Init == InitDiscovery

Spec == Init /\ [][Next]_vars

\* the runtime runs a ready task and fires an elapsed timer; nothing makes a
\* device answer a probe or a follow-up query
FairSpec ==
    /\ Spec
    /\ WF_vars(Spawn)
    /\ WF_vars(JoinNext)
    /\ WF_vars(JoinSetEmpty)
    /\ WF_vars(TimerElapse)
    /\ WF_vars(SelectTasks)
    /\ WF_vars(SelectTimeout)
    /\ WF_vars(\E c \in DiscoveryCommands : ProbeAborted(c))

(***************************************************************************)
(* Claims on get_miner (checked under Spec and FairSpec)                   *)
(***************************************************************************)
\* the probes that finished with a classification, in the order of finishing
ClassifiedInOrder == SelectSeq(finish_order, LAMBDA c : Classifies(output[c]))

\* C1: the classification phase 1 yields is that of the first probe that
\* finished with a classifiable response, and the loop returns it as soon as
\* it has taken that probe from the set, whatever the other probes do.
C1_FirstClassifiableWins ==
    /\ (tasks # Pending /\ tasks[2] # None) =>
          (ClassifiedInOrder # <<>> /\ tasks[2] = output[ClassifiedInOrder[1]][2])
    /\ (miner_info # Pending /\ miner_info # None) =>
          (ClassifiedInOrder # <<>> /\ miner_info = output[ClassifiedInOrder[1]][2])
    /\ (\E c \in commands : task[c] = "joined" /\ Classifies(output[c])) =>
          tasks # Pending

\* C1 witness: probe 2 classified and phase 1 ended with its classification
\* while probe 1 is still running.
C1_Witness ==
    /\ pc = "get_model"
    /\ task[1] = "running"
    /\ Classifies(output[2])
    /\ miner_info = output[2][2]

AllProbesHang == commands # {} /\ \A c \in commands : task[c] \in {"unspawned", "running"}

\* C2: if no probe ever completes, the timer ends phase 1 and get_miner
\* returns Ok(None).
C2_DeadlineEndsPhase1 ==
    ([]AllProbesHang) =>
        <>(pc = "returned" /\ timeout /\ get_miner_result = <<"Ok", None>>)

\* C2 witness: get_miner has returned Ok(None) with every probe still running.
C2_Witness ==
    /\ commands = DiscoveryCommands
    /\ \A c \in commands : task[c] = "running"
    /\ timeout
    /\ get_miner_result = <<"Ok", None>>

\* C3: a probe that yields nothing or panics leaves the loop consuming: the
\* loop ends without a classification only when every probe has been taken
\* from the set, and a panic of get_miner never stems from a probe.
C3_ProbeFailureDoesNotAbort ==
    /\ tasks = Return(None) => \A c \in commands : task[c] = "joined"
    /\ tasks # Panic
    /\ get_miner_result = Panic => (miner_info # Pending /\ miner_info # None)
    /\ pc \in {"start", "select"} => get_miner_result = Pending

\* C3 witness: a probe panicked, was taken from the set, and discovery went on
\* to the classification of another probe.
C3_Witness ==
    \E c, d \in commands :
        /\ output[c] = Panic
        /\ task[c] = "joined"
        /\ Classifies(output[d])
        /\ tasks = Return(output[d][2])
        /\ miner_info = output[d][2]

\* C4: get_miner always eventually returns.
C4_AlwaysReturns == <>(pc \in {"returned", "panicked"})

\* C5: once a device is classified, whatever the follow-up query yields,
\* get_miner returns Ok(Some((model, firmware))) with the firmware of the
\* classification: never Ok(None), never a panic.
C5_ModelFailureIsSomeNone ==
    (model_reply # Pending /\ miner_info # Pending /\ miner_info # None) =>
        /\ get_miner_result[1] = "Ok"
        /\ get_miner_result[2] # None
        /\ get_miner_result[2][2][2] = miner_info[2][2]

\* get_miner in the time before sleep(MAX_WAIT_TIME) elapses
NextBeforeDeadline ==
    \/ Spawn
    \/ \E c \in DiscoveryCommands : ProbeFinish(c)
    \/ \E c \in DiscoveryCommands : ProbeAborted(c)
    \/ JoinNext
    \/ JoinSetEmpty
    \/ SelectTasks
    \/ GetModel

FairSpecBeforeDeadline ==
    /\ Init
    /\ [][NextBeforeDeadline]_vars
    /\ WF_vars(Spawn)
    /\ WF_vars(JoinNext)
    /\ WF_vars(JoinSetEmpty)
    /\ WF_vars(SelectTasks)
    /\ WF_vars(\E c \in DiscoveryCommands : ProbeAborted(c))

\* every probe of the set has completed and none classified
AllCompleteUnclassified ==
    \A c \in commands : task[c] \in {"finished", "joined"} /\ ~Classifies(output[c])

\* C23: when every probe has completed without classifying, or there is no
\* probe, get_miner returns Ok(None) without the deadline having elapsed.
C23_ReturnsWhenLastProbeCompletes ==
    [](AllCompleteUnclassified =>
        <>(pc = "returned" /\ get_miner_result = <<"Ok", None>> /\ ~timeout))

\* C23 witness: all the probes completed, one of them by a panic, none
\* classified, and get_miner returned Ok(None) before the deadline.
C23_Witness ==
    /\ commands = DiscoveryCommands
    /\ AllCompleteUnclassified
    /\ \E c \in commands : output[c] = Panic
    /\ ~timeout
    /\ pc = "returned"
    /\ get_miner_result = <<"Ok", None>>

\* what the resolver phase 2 must use yields for the follow-up reply
ResolverOutcome ==
    IF miner_info[2][1] # None THEN make_get_model(miner_info[2][1][2], model_reply)
    ELSE firmware_get_model(miner_info[2][2][2], model_reply)

\* C24: get_miner ends by the make's resolver when phase 1 produced a make,
\* by the firmware's resolver only when it produced no make, and by Ok(None)
\* without a resolver when it produced neither; the firmware returned is the
\* firmware phase 1 produced.
C24_MakeTakesPrecedence ==
    pc \in {"returned", "panicked"} =>
        IF miner_info = None \/ miner_info = Some(<<None, None>>)
        THEN get_miner_result = <<"Ok", None>> /\ model_reply = Pending
        ELSE /\ model_reply # Pending
             /\ IF ResolverOutcome = Panic THEN get_miner_result = Panic
                ELSE get_miner_result =
                        <<"Ok", Some(<<ResolverOutcome[2], miner_info[2][2]>>)>>

\* C24 witness: phase 1 produced the firmware BraiinsOS and no make, and
\* get_miner returned the model the firmware's resolver found, with BraiinsOS.
C24_Witness ==
    /\ pc = "returned"
    /\ miner_info = Some(<<None, Some("BraiinsOS")>>)
    /\ get_miner_result[2] # None
    /\ get_miner_result[2][2][1] # None
    /\ get_miner_result[2][2][2] = Some("BraiinsOS")

\* phase 1 has settled: select! has produced its value
Phase1Settled == miner_info # Pending

\* C21: once phase 1 has settled, a probe that finishes, and the loop that
\* takes it from the set, change neither the value select! produced nor
\* where get_miner is nor what it returns; what get_miner returns is decided
\* by the settled value and the follow-up query alone, and a panic of
\* get_miner is never that of a probe.
C21_LateProbesAreDiscarded ==
    /\ [][Phase1Settled => miner_info' = miner_info]_vars
    /\ [][(Phase1Settled /\ (output' # output \/ task' # task \/ tasks' # tasks))
            => UNCHANGED <<pc, miner_info, model_reply, get_miner_result>>]_vars
    /\ [](get_miner_result = <<"Ok", None>> =>
            (miner_info = None \/ miner_info = Some(<<None, None>>)))
    /\ [](get_miner_result = Panic => (pc = "panicked" /\ model_reply # Pending))

\* C21 witness: the deadline settled phase 1 and get_miner returned Ok(None);
\* afterwards one probe panicked and another classified, and the loop took
\* both from the set.
C21_Witness ==
    /\ pc = "returned"
    /\ miner_info = None
    /\ get_miner_result = <<"Ok", None>>
    /\ \E c, d \in commands :
            /\ output[c] = Panic
            /\ Classifies(output[d])
            /\ task[c] = "joined"
            /\ task[d] = "joined"
            /\ tasks = Return(output[d][2])

\* ======================================================================
\* The data collector: DataCollector::collect_all over the location map of
\* BTMiner1 (miners/backends/btminer/v1/mod.rs).
\* ======================================================================

\* MinerCommand: a tagged variant compared by structural equality
RPC(command, parameters) == [tag |-> "RPC", command |-> command, parameters |-> parameters]
WebAPI(command, method, parameters) ==
    [tag |-> "WebAPI", command |-> command, method |-> method, parameters |-> parameters]

summary_cmd == RPC("summary", None)
devs_cmd == RPC("devs", None)
pools_cmd == RPC("pools", None)
status_cmd == RPC("status", None)
get_version_cmd == RPC("get_version", None)
get_psu_cmd == RPC("get_psu", None)

\* PowerPlay::get_locations: fn cmd(endpoint)
cmd(endpoint) == [tag |-> "WebAPI", command |-> endpoint, parameters |-> None]

\* every command the transport can be invoked with: those of the backends and
\* commands that differ from them in the tag or in one field only
MinerCommandOrder ==
    << summary_cmd, devs_cmd, pools_cmd, status_cmd, get_version_cmd, get_psu_cmd,
       RPC("summary", Some("0")), WebAPI("summary", "GET", None),
       cmd("summary"), cmd("network"), cmd("capabilities"), cmd("temps/chip"),
       cmd("voltages"), cmd("hashrate"), cmd("clocks"), cmd("temps"),
       RPC("version", None), RPC("stats", None), RPC("config", None), RPC("fans", None),
       RPC("power", None), RPC("profiles", None), RPC("healthchipget", Some("0")),
       RPC("healthchipget", Some("1")), RPC("healthchipget", Some("2")) >>
MinerCommands == {MinerCommandOrder[i] : i \in DOMAIN MinerCommandOrder}

DataFieldOrder ==
    << "Mac", "ApiVersion", "FirmwareVersion", "ControlBoardVersion", "WattageLimit",
       "Fans", "PsuFans", "Hashboards", "Pools", "Uptime", "Wattage", "Hashrate",
       "ExpectedHashrate", "FluidTemperature", "IsMining", "Messages",
       "AverageTemperature", "Hostname", "LightFlashing", "SerialNumber" >>
DataField == {DataFieldOrder[i] : i \in DOMAIN DataFieldOrder}

DataExtractor(func, key, tag) == [func |-> func, key |-> key, tag |-> tag]

\* GetDataLocations for BTMiner1: the (command, extractor) pairs of a field
get_locations(data_field) ==
    CASE data_field = "Mac" ->
            << <<summary_cmd, DataExtractor("get_by_pointer", Some("/SUMMARY/0/MAC"), None)>> >>
      [] data_field = "ApiVersion" ->
            << <<get_version_cmd, DataExtractor("get_by_pointer", Some("/Msg/api_ver"), None)>> >>
      [] data_field = "FirmwareVersion" ->
            << <<get_version_cmd, DataExtractor("get_by_pointer", Some("/Msg/fw_ver"), None)>> >>
      [] data_field = "ControlBoardVersion" ->
            << <<get_version_cmd, DataExtractor("get_by_pointer", Some("/Msg/platform"), None)>> >>
      [] data_field = "WattageLimit" ->
            << <<summary_cmd, DataExtractor("get_by_pointer", Some("/SUMMARY/0/Power Limit"), None)>> >>
      [] data_field = "Fans" ->
            << <<summary_cmd, DataExtractor("get_by_pointer", Some("/SUMMARY/0"), None)>> >>
      [] data_field = "PsuFans" ->
            << <<get_psu_cmd, DataExtractor("get_by_pointer", Some("/Msg/fan_speed"), None)>> >>
      [] data_field = "Hashboards" ->
            << <<devs_cmd, DataExtractor("get_by_pointer", Some(""), None)>> >>
      [] data_field = "Pools" ->
            << <<pools_cmd, DataExtractor("get_by_pointer", Some("/POOLS"), None)>> >>
      [] data_field = "Uptime" ->
            << <<summary_cmd, DataExtractor("get_by_pointer", Some("/SUMMARY/0/Elapsed"), None)>> >>
      [] data_field = "Wattage" ->
            << <<summary_cmd, DataExtractor("get_by_pointer", Some("/SUMMARY/0/Power"), None)>> >>
      [] data_field = "Hashrate" ->
            << <<summary_cmd, DataExtractor("get_by_pointer", Some("/SUMMARY/0/HS RT"), None)>> >>
      [] data_field = "ExpectedHashrate" ->
            << <<summary_cmd, DataExtractor("get_by_pointer", Some("/SUMMARY/0/Factory GHS"), None)>> >>
      [] data_field = "FluidTemperature" ->
            << <<summary_cmd, DataExtractor("get_by_pointer", Some("/SUMMARY/0/Env Temp"), None)>> >>
      [] data_field = "IsMining" ->
            << <<status_cmd, DataExtractor("get_by_pointer", Some("/SUMMARY/0/btmineroff"), None)>> >>
      [] data_field = "Messages" ->
            << <<summary_cmd, DataExtractor("get_by_pointer", Some("/SUMMARY/0"), None)>> >>
      [] OTHER -> << >>

\* GetDataLocations for PowerPlay (ePIC): Hashboards has seven tagged locations
get_locations_PowerPlay(data_field) ==
    CASE data_field = "Mac" ->
            << <<cmd("network"), DataExtractor("get_by_pointer", Some(""), None)>> >>
      [] data_field = "Hostname" ->
            << <<cmd("summary"), DataExtractor("get_by_pointer", Some("/Hostname"), None)>> >>
      [] data_field = "Uptime" ->
            << <<cmd("summary"), DataExtractor("get_by_pointer", Some("/Session/Uptime"), None)>> >>
      [] data_field = "Wattage" ->
            << <<cmd("summary"), DataExtractor("get_by_pointer", Some("/Power Supply Stats/Input Power"), None)>> >>
      [] data_field = "Fans" ->
            << <<cmd("summary"), DataExtractor("get_by_pointer", Some("/Fans Rpm"), None)>> >>
      [] data_field = "Hashboards" ->
            << <<cmd("temps"), DataExtractor("get_by_pointer", Some(""), Some("Board Temps"))>>,
               <<cmd("summary"), DataExtractor("get_by_pointer", Some(""), Some("Summary"))>>,
               <<cmd("temps/chip"), DataExtractor("get_by_pointer", Some(""), Some("Chip Temps"))>>,
               <<cmd("voltages"), DataExtractor("get_by_pointer", Some(""), Some("Chip Voltages"))>>,
               <<cmd("hashrate"), DataExtractor("get_by_pointer", Some(""), Some("Chip Hashrates"))>>,
               <<cmd("clocks"), DataExtractor("get_by_pointer", Some(""), Some("Chip Clocks"))>>,
               <<cmd("capabilities"), DataExtractor("get_by_pointer", Some(""), Some("Capabilities"))>> >>
      [] data_field = "Pools" ->
            << <<cmd("summary"), DataExtractor("get_by_pointer", Some(""), None)>> >>
      [] data_field = "IsMining" ->
            << <<cmd("summary"), DataExtractor("get_by_pointer", Some("/Status/Operating State"), None)>> >>
      [] data_field = "LightFlashing" ->
            << <<cmd("summary"), DataExtractor("get_by_pointer", Some("/Misc/Locate Miner State"), None)>> >>
      [] data_field = "ControlBoardVersion" ->
            << <<cmd("capabilities"), DataExtractor("get_by_pointer", Some("/Control Board Version/cpuHardware"), None)>> >>
      [] data_field = "SerialNumber" ->
            << <<cmd("capabilities"), DataExtractor("get_by_pointer", Some("/Control Board Version/cpuSerial"), None)>> >>
      [] data_field = "ExpectedHashrate" ->
            << <<cmd("capabilities"), DataExtractor("get_by_pointer", Some("/Default Hashrate"), None)>> >>
      [] data_field = "FirmwareVersion" ->
            << <<cmd("summary"), DataExtractor("get_by_pointer", Some("/Software"), None)>> >>
      [] data_field = "Hashrate" ->
            << <<cmd("summary"), DataExtractor("get_by_pointer", Some("/HBs"), None)>> >>
      [] OTHER -> << >>

\* a LuxMinerV1 location map in which two locations of Hashboards share a tag
get_locations_LuxMinerV1_sametag(data_field) ==
    CASE data_field = "Hashboards" ->
            << <<RPC("healthchipget", Some("0")), DataExtractor("get_by_pointer", Some("/CHIPS"), Some("CHIPS_0"))>>,
               <<RPC("healthchipget", Some("1")), DataExtractor("get_by_pointer", Some("/CHIPS"), Some("CHIPS_0"))>>,
               <<RPC("healthchipget", Some("2")), DataExtractor("get_by_pointer", Some("/CHIPS"), Some("CHIPS_2"))>>,
               <<RPC("stats", None), DataExtractor("get_by_pointer", Some("/STATS/1"), Some("STATS"))>> >>
      [] OTHER -> << >>

\* GetDataLocations for LuxMinerV1: Hashboards has four tagged locations
get_locations_LuxMinerV1(data_field) ==
    CASE data_field = "Mac" ->
            << <<RPC("config", None), DataExtractor("get_by_pointer", Some("/CONFIG/0/MACAddr"), None)>> >>
      [] data_field = "Fans" ->
            << <<RPC("fans", None), DataExtractor("get_by_pointer", Some("/FANS"), None)>> >>
      [] data_field = "ApiVersion" ->
            << <<RPC("version", None), DataExtractor("get_by_pointer", Some("/VERSION/0/API"), None)>> >>
      [] data_field = "FirmwareVersion" ->
            << <<RPC("version", None), DataExtractor("get_by_pointer", Some("/VERSION/0/Miner"), None)>> >>
      [] data_field = "Hostname" ->
            << <<RPC("config", None), DataExtractor("get_by_pointer", Some("/CONFIG/0/Hostname"), None)>> >>
      [] data_field = "Hashboards" ->
            << <<RPC("healthchipget", Some("0")), DataExtractor("get_by_pointer", Some("/CHIPS"), Some("CHIPS_0"))>>,
               <<RPC("healthchipget", Some("1")), DataExtractor("get_by_pointer", Some("/CHIPS"), Some("CHIPS_1"))>>,
               <<RPC("healthchipget", Some("2")), DataExtractor("get_by_pointer", Some("/CHIPS"), Some("CHIPS_2"))>>,
               <<RPC("stats", None), DataExtractor("get_by_pointer", Some("/STATS/1"), Some("STATS"))>> >>
      [] data_field = "LightFlashing" ->
            << <<RPC("config", None), DataExtractor("get_by_pointer", Some("/CONFIG/0/RedLed"), None)>> >>
      [] data_field = "IsMining" ->
            << <<RPC("summary", None), DataExtractor("get_by_pointer", Some("/SUMMARY/0/GHS 5s"), None)>> >>
      [] data_field = "Uptime" ->
            << <<RPC("stats", None), DataExtractor("get_by_pointer", Some("/STATS/1/Elapsed"), None)>> >>
      [] data_field = "Pools" ->
            << <<RPC("pools", None), DataExtractor("get_by_pointer", Some("/POOLS"), None)>> >>
      [] data_field = "Wattage" ->
            << <<RPC("power", None), DataExtractor("get_by_pointer", Some("/POWER/0/Watts"), None)>> >>
      [] data_field = "WattageLimit" ->
            << <<RPC("profiles", None), DataExtractor("get_by_pointer", Some("/PROFILES"), None)>> >>
      [] data_field = "SerialNumber" ->
            << <<RPC("config", None), DataExtractor("get_by_pointer", Some("/CONFIG/0/serial_no"), None)>> >>
      [] data_field = "Messages" ->
            << <<RPC("summary", None), DataExtractor("get_by_pointer", Some("/STATUS"), None)>> >>
      [] data_field = "ControlBoardVersion" ->
            << <<RPC("config", None), DataExtractor("get_by_pointer", Some("/CONFIG/0/ControlBoardType"), None)>> >>
      [] OTHER -> << >>

Miners == {"BTMiner1", "PowerPlay", "LuxMinerV1"}

\* self.miner.get_locations(field): the location map of the collector's miner
Locations(field) ==
    CASE miner = "BTMiner1"   -> get_locations(field)
      [] miner = "PowerPlay"  -> get_locations_PowerPlay(field)
      [] miner = "LuxMinerV1" -> get_locations_LuxMinerV1(field)
      [] OTHER                -> << >>

\* the obligations of a list of fields: every location of every field, in order
RECURSIVE Obligations(_)
Obligations(fs) ==
    IF fs = << >> THEN << >>
    ELSE Locations(Head(fs)) \o Obligations(Tail(fs))

\* a collector that sends one request per obligation
required_commands_per_location(fs) ==
    [i \in DOMAIN Obligations(fs) |-> Obligations(fs)[i][1]]

\* step 2 of collect_all: the distinct commands of the obligations
required_commands(fs) ==
    LET obligations == Obligations(fs)
        required == {obligations[i][1] : i \in DOMAIN obligations}
    IN SelectSeq(MinerCommandOrder, LAMBDA c : c \in required)

\* what the transport answers: an error, or a JSON document, here the set of
\* pointers that resolve in it
Err == <<"Err">>
Ok(x) == <<"Ok", x>>
PointersOf(command) ==
    UNION {{Locations(f)[i][2].key[2] :
                i \in {j \in DOMAIN Locations(f) : Locations(f)[j][1] = command}} :
            f \in DataField} \ {""}
Document(command, pointers) == [of |-> command, pointers |-> pointers]
TransportResults(command) ==
    {Err, Ok(Document(command, PointersOf(command))), Ok(Document(command, {}))}

\* extract: the whole document for no path or the empty path, else the
\* addressed value if the pointer resolves
get_by_pointer(data, pointer) ==
    IF pointer = None \/ pointer = Some("") THEN Some(data)
    ELSE IF pointer[2] \in data.pointers THEN Some(<<data.of, pointer[2]>>)
    ELSE None

\* step 4 of collect_all for one field: the results of its locations whose
\* command succeeded, merged into one value: a tagged result under its tag,
\* an untagged one as it is (here under the key None)
extract_field(field, responses) ==
    LET locations == Locations(field)
        found(i) ==
            IF locations[i][1] \in DOMAIN responses
            THEN get_by_pointer(responses[locations[i][1]], locations[i][2].key)
            ELSE None
        success == {i \in DOMAIN locations : found(i) # None}
        \* merging in location order: of two results under one key the later stays
        last(t) == CHOOSE i \in success :
                        /\ locations[i][2].tag = t
                        /\ \A j \in success : locations[j][2].tag = t => j <= i
    IN IF success = {} THEN None
       ELSE Some([t \in {locations[i][2].tag : i \in success} |-> found(last(t))[2]])

\* the runs: collect_all of BTMiner1 and of PowerPlay, and the collection of
\* the hashboards of LuxMinerV1
Range(seq) == {seq[i] : i \in DOMAIN seq}
CollectorRuns ==
    { <<"BTMiner1", DataFieldOrder>>, <<"PowerPlay", DataFieldOrder>>,
      <<"LuxMinerV1", <<"Hashboards">>>> }

InitCollect ==
    /\ \E run \in CollectorRuns : miner = run[1] /\ fields = run[2]
    /\ coll_pc = "start"
    /\ to_issue = << >>
    /\ calls = [c \in MinerCommands |-> 0]
    /\ cache = << >>
    /\ field_map = Pending
    /\ IdleExcept("coll")

\* steps 1 and 2 of collect_all, over the fields of interest
CollectAll ==
    /\ coll_pc = "start"
    /\ to_issue' = required_commands(fields)
    /\ coll_pc' = "issuing"
    /\ UNCHANGED <<miner, fields, calls, cache, field_map, notColl>>

\* a collector that gives up at the first failing command
get_api_result_abort(i, result) ==
    /\ coll_pc = "issuing"
    /\ i \in DOMAIN to_issue
    /\ result \in TransportResults(to_issue[i])
    /\ calls' = [calls EXCEPT ![to_issue[i]] = @ + 1]
    /\ cache' = IF result = Err THEN << >>
                ELSE [c \in DOMAIN cache \cup {to_issue[i]} |->
                        IF c = to_issue[i] THEN result[2] ELSE cache[c]]
    /\ to_issue' = IF result = Err THEN << >>
                   ELSE [j \in 1..(Len(to_issue) - 1) |->
                            IF j < i THEN to_issue[j] ELSE to_issue[j + 1]]
    /\ UNCHANGED <<miner, fields, coll_pc, field_map, notColl>>

\* step 3: one command goes to the transport; a success is kept, a failure
\* leaves no trace
get_api_result(i, result) ==
    /\ coll_pc = "issuing"
    /\ i \in DOMAIN to_issue
    /\ result \in TransportResults(to_issue[i])
    /\ calls' = [calls EXCEPT ![to_issue[i]] = @ + 1]
    /\ cache' = IF result = Err THEN cache
                ELSE [c \in DOMAIN cache \cup {to_issue[i]} |->
                        IF c = to_issue[i] THEN result[2] ELSE cache[c]]
    /\ to_issue' = [j \in 1..(Len(to_issue) - 1) |->
                        IF j < i THEN to_issue[j] ELSE to_issue[j + 1]]
    /\ UNCHANGED <<miner, fields, coll_pc, field_map, notColl>>

\* steps 4 and 5: every command was sent; the field map is assembled
ExtractFields ==
    /\ coll_pc = "issuing"
    /\ to_issue = << >>
    /\ field_map' = Return([f \in {g \in Range(fields) : extract_field(g, cache) # None} |->
                                extract_field(f, cache)[2]])
    /\ coll_pc' = "done"
    /\ UNCHANGED <<miner, fields, to_issue, calls, cache, notColl>>

NextCollect ==
    \/ CollectAll
    \/ \E i \in DOMAIN to_issue :
            \E result \in TransportResults(to_issue[i]) :
                get_api_result(i, result)
    \/ ExtractFields

SpecCollect == InitCollect /\ [][NextCollect]_vars

\* ---- claims about the collector

\* the fields some location of which names a command
FieldsOf(command) ==
    {f \in Range(fields) :
        \E i \in DOMAIN Locations(f) : Locations(f)[i][1] = command}

\* C10: during one collect_all, each distinct command (by tag and fields) goes
\* to the transport exactly once, however many fields or locations name it:
\* never twice at any moment, and when the map is returned every referenced
\* command was sent once and no other command was sent.
C10_EachCommandIssuedOnce ==
    /\ \A c \in DOMAIN calls : calls[c] <= 1
    /\ coll_pc = "done" =>
        \A c \in MinerCommands :
            calls[c] = IF FieldsOf(c) # {} THEN 1 ELSE 0

\* C10 witness: collect_all has returned, nine fields share the summary
\* command, two of them are in the map, and the transport saw summary once.
C10_Witness ==
    /\ miner = "BTMiner1"
    /\ coll_pc = "done"
    /\ Cardinality(FieldsOf(summary_cmd)) = 9
    /\ {"Mac", "Hashrate"} \subseteq DOMAIN field_map[2]
    /\ calls[summary_cmd] = 1

\* the commands that failed at the transport: sent, and nothing kept
Failed(command) == calls[command] > 0 /\ command \notin DOMAIN cache
\* a location of the field whose command answered with a document in which
\* the location's path resolves
Served(f) ==
    \E i \in DOMAIN Locations(f) :
        LET command == Locations(f)[i][1]
            key == Locations(f)[i][2].key
        IN  /\ command \in DOMAIN cache
            /\ (key = Some("") \/ key[2] \in cache[command].pointers)

\* the field has an entry in the returned map
Populated(f) == \E g \in DOMAIN field_map[2] : g = f

\* C11: whatever subset of the commands fails, collect_all returns a map (there
\* is no error outcome), every referenced command was still sent, the fields
\* served by a succeeding command are in the map, and the fields all of whose
\* commands failed are absent.
C11_FailuresAreSwallowed ==
    coll_pc = "done" =>
        /\ field_map[1] = "Return"
        /\ \A c \in MinerCommands : FieldsOf(c) # {} => calls[c] = 1
        /\ \A f \in Range(fields) : Served(f) => Populated(f)
        /\ \A f \in Range(fields) :
                (\A i \in DOMAIN Locations(f) : Failed(Locations(f)[i][1]))
                    => ~Populated(f)

\* C11 witness: summary failed and get_version succeeded; the map holds the
\* API version and no MAC.
C11_Witness ==
    /\ miner = "BTMiner1"
    /\ coll_pc = "done"
    /\ Failed(summary_cmd)
    /\ get_version_cmd \in DOMAIN cache
    /\ Populated("ApiVersion")
    /\ ~Populated("Mac")

\* serde_json::Value::get(tag) / pointer("/tag") on a field's entry, as the
\* backends read it (parse_hashboards of LuxMinerV1 and of PowerPlay)
Value_get(value, tag) ==
    IF \E t \in DOMAIN value : t = Some(tag) THEN Some(value[Some(tag)]) ELSE None

\* what the location alone yields from the responses kept
LocationResult(location) ==
    IF \E c \in DOMAIN cache : c = location[1]
    THEN get_by_pointer(cache[location[1]], location[2].key)
    ELSE None

\* C12: for a field with several locations the map holds one entry, in which
\* selecting by the tag of a tagged location gives exactly what that location
\* yields: its own result if its command succeeded and its path resolves, and
\* nothing otherwise (no other location's result stands in its place).
C12_TaggedResultsKeptApart ==
    coll_pc = "done" =>
        \A f \in Range(fields) :
            Len(Locations(f)) > 1 =>
                \A i \in DOMAIN Locations(f) :
                    Locations(f)[i][2].tag # None =>
                        (IF Populated(f)
                         THEN Value_get(field_map[2][f], Locations(f)[i][2].tag[2])
                         ELSE None) = LocationResult(Locations(f)[i])

\* C12 witness: all seven commands of the hashboards of PowerPlay succeeded
\* and the entry holds seven sub-results, the summary document under
\* "Summary" and the chip temperatures under "Chip Temps".
C12_Witness ==
    /\ miner = "PowerPlay"
    /\ coll_pc = "done"
    /\ Len(Locations("Hashboards")) = 7
    /\ Populated("Hashboards")
    /\ Cardinality(DOMAIN field_map[2]["Hashboards"]) = 7
    /\ Value_get(field_map[2]["Hashboards"], "Summary") = Some(cache[cmd("summary")])
    /\ Value_get(field_map[2]["Hashboards"], "Chip Temps") = Some(cache[cmd("temps/chip")])

\* ======================================================================
\* The data extraction engine: extract(document, path)
\* ======================================================================

\* JSON values: null, a string, an array, an object (its members in key order)
JNull == <<"Null">>
JStr(text) == <<"Str", text>>
JArr(items) == <<"Arr", items>>
JObj(members) == <<"Obj", members>>

MaxArrayLen == 2
JsonScalars == {JNull, JStr("x")}
ObjectsOver(values) ==
    {JObj(<< >>)}
    \cup {JObj(<< <<k, v>> >>) : k \in {<<"0">>, <<"a">>}, v \in values}
    \cup {JObj(<< <<<<"0">>, v>>, <<<<"a">>, w>> >>) : v \in values, w \in values}
ArraysOver(values) ==
    {JArr(items) : items \in UNION {[1..n -> values] : n \in 0..MaxArrayLen}}
Json1 == JsonScalars \cup ObjectsOver(JsonScalars) \cup ArraysOver(JsonScalars)
Json2 == Json1 \cup ObjectsOver(Json1) \cup ArraysOver(Json1)

\* the paths tried: none, the empty path, pointers that resolve, that miss,
\* that meet a value of the wrong kind, and text that is no pointer
PathTexts ==
    { << >>, <<"/","a">>, <<"/","0">>, <<"/","1">>, <<"/","2">>, <<"/","a","/","0">>,
      <<"/","0","/","a">>, <<"/","a","/","a">>, <<"/","0","1">>, <<"a">>, <<"/">>,
      <<"/","a","/">>, <<"/","~","1">> }
ExtPaths == {None} \cup {Some(t) : t \in PathTexts}

\* str::split('/')
RECURSIVE split(_)
split(text) ==
    IF \E i \in 1..Len(text) : text[i] = "/"
    THEN LET i == CHOOSE i \in 1..Len(text) :
                    text[i] = "/" /\ \A j \in 1..(i - 1) : text[j] # "/"
         IN  <<SubSeq(text, 1, i - 1)>> \o split(SubSeq(text, i + 1, Len(text)))
    ELSE <<text>>

\* the value of a decimal numeral
DigitOrder == <<"0","1","2","3","4","5","6","7","8","9">>
RECURSIVE Numeral(_)
Numeral(token) ==
    IF token = << >> THEN 0
    ELSE 10 * Numeral(SubSeq(token, 1, Len(token) - 1))
         + (CHOOSE d \in 0..9 : DigitOrder[d + 1] = token[Len(token)])

\* an array index: decimal digits, no sign, no leading zero
parse_index(token) ==
    IF token = << >> \/ \E i \in 1..Len(token) : token[i] \notin Digits THEN None
    ELSE IF token[1] = "0" /\ Len(token) # 1 THEN None
    ELSE Some(Numeral(token))

\* one segment: a member of an object, an element of an array, else nothing
pointer_step(target, token) ==
    CASE target[1] = "Obj" ->
            IF \E i \in 1..Len(target[2]) : target[2][i][1] = token
            THEN Some(target[2][CHOOSE i \in 1..Len(target[2]) : target[2][i][1] = token][2])
            ELSE None
      [] target[1] = "Arr" ->
            IF parse_index(token) # None /\ parse_index(token)[2] < Len(target[2])
            THEN Some(target[2][parse_index(token)[2] + 1])
            ELSE None
      [] OTHER -> None

RECURSIVE pointer_fold(_, _)
pointer_fold(target, tokens) ==
    IF tokens = << >> THEN Some(target)
    ELSE LET next == pointer_step(target,
                        replace(replace(Head(tokens), <<"~","1">>, <<"/">>),
                                <<"~","0">>, <<"~">>))
         IN  IF next = None THEN None ELSE pointer_fold(next[2], Tail(tokens))

\* the slash-delimited pointer into nested objects and arrays
pointer(value, text) ==
    IF text = << >> THEN Some(value)
    ELSE IF text[1] # "/" THEN None
    ELSE pointer_fold(value, split(Tail(text)))

\* an extractor that takes the addressed value for granted
extract_unwrap(document, path) ==
    IF path = None THEN Return(Some(document))
    ELSE IF pointer(document, path[2]) = None THEN Panic
    ELSE Return(pointer(document, path[2]))

\* extract(document, path): no path is the whole document
extract(document, path) ==
    IF path = None THEN Return(Some(document))
    ELSE Return(pointer(document, path[2]))

InitExtract ==
    /\ ext_document \in {Some(v) : v \in Json2}
    /\ ext_path \in ExtPaths
    /\ ext_result = Pending
    /\ IdleExcept("ext")

Extract ==
    /\ ext_result = Pending
    /\ ext_result' = extract(ext_document[2], ext_path)
    /\ UNCHANGED <<ext_document, ext_path, notExt>>

NextExtract == Extract

SpecExtract == InitExtract /\ [][NextExtract]_vars

\* ---- claims about extract

\* the values inside a value, at any depth
RECURSIVE SubValues(_)
SubValues(v) ==
    {v} \cup
    (CASE v[1] = "Obj" -> UNION {SubValues(v[2][i][2]) : i \in 1..Len(v[2])}
       [] v[1] = "Arr" -> UNION {SubValues(v[2][i]) : i \in 1..Len(v[2])}
       [] OTHER -> {})

\* C13: extract is total: it always returns, never panics; with no path or the
\* empty path it returns the whole document; with any other path it returns
\* nothing or a value found inside the document.
C13_ExtractIsTotal ==
    ext_result # Pending =>
        /\ ext_result[1] = "Return"
        /\ (ext_path = None \/ ext_path = Some(<< >>)) =>
                ext_result[2] = Some(ext_document[2])
        /\ ext_result[2] # None =>
                \E v \in SubValues(ext_document[2]) : ext_result[2] = Some(v)

\* C13 witness: the path /a/0 meets a string where an array or object is
\* needed, and extract returned None.
C13_Witness ==
    /\ ext_result = Return(None)
    /\ ext_path = Some(<<"/","a","/","0">>)
    /\ ext_document = Some(JObj(<< <<<<"a">>, JStr("x")>> >>))

\* ======================================================================
\* The range scanner: get_miners_with_options (lib.rs)
\* ======================================================================

\* the cap of buffer_unordered: 25 in lib.rs, scaled to the hosts modelled
MAX_CONCURRENT_TASKS == 2
MaxHosts == 4
Hosts == 1..MaxHosts

\* the futures buffer_unordered holds
InFlight == {h \in 1..n_hosts : host_state[h] \in {"discovery", "get_model"}}

\* Result<Option<miner>>::ok().flatten()
ok_flatten(result) ==
    IF result[1] = "Ok" THEN result[2] ELSE None

InitScan ==
    /\ scan_pc = "scanning"
    /\ n_hosts \in 0..MaxHosts
    /\ next_host = 0
    /\ host_state = [h \in Hosts |-> "queued"]
    /\ host_output = [h \in Hosts |-> Pending]
    /\ miners = << >>
    /\ IdleExcept("scan")

\* buffer_unordered takes the next host from the stream while it holds fewer
\* than MAX_CONCURRENT_TASKS futures
StartHost ==
    /\ scan_pc = "scanning"
    /\ next_host < n_hosts
    /\ Cardinality(InFlight) < MAX_CONCURRENT_TASKS
    /\ next_host' = next_host + 1
    /\ host_state' = [host_state EXCEPT ![next_host + 1] = "discovery"]
    /\ UNCHANGED <<scan_pc, n_hosts, host_output, miners, notScan>>

\* the futures held are polled once the buffer is full or the stream is spent
Polled(h) ==
    /\ scan_pc = "scanning"
    /\ h \in InFlight
    /\ (Cardinality(InFlight) = MAX_CONCURRENT_TASKS \/ next_host = n_hosts)

\* a pipeline's output goes through ok().flatten() and filter_map
Yield(h, result) ==
    /\ host_state' = [host_state EXCEPT ![h] = "done"]
    /\ host_output' = [host_output EXCEPT ![h] = ok_flatten(result)]
    /\ miners' = IF ok_flatten(result) = None THEN miners
                 ELSE Append(miners, ok_flatten(result)[2])
    /\ UNCHANGED <<scan_pc, n_hosts, next_host, notScan>>

\* phase 1 of get_miner ends with no classification, at the deadline at the
\* latest: Ok(None)
DiscoveryNone(h) ==
    /\ Polled(h)
    /\ host_state[h] = "discovery"
    /\ Yield(h, <<"Ok", None>>)

\* phase 1 of get_miner classified the device: the follow-up query starts
DiscoveryClassified(h) ==
    /\ Polled(h)
    /\ host_state[h] = "discovery"
    /\ host_state' = [host_state EXCEPT ![h] = "get_model"]
    /\ UNCHANGED <<scan_pc, n_hosts, next_host, host_output, miners, notScan>>

\* the follow-up query was answered: get_miner returns the miner of the host,
\* or, as its Result type admits, an error
GetMinerReturns(h, result) ==
    /\ Polled(h)
    /\ host_state[h] = "get_model"
    /\ result \in {<<"Ok", Some(h)>>, <<"Err">>}
    /\ Yield(h, result)

\* get_miner panics in the follow-up query: the future runs inside the
\* stream, so the panic unwinds get_miners_with_options
GetMinerPanics(h) ==
    /\ Polled(h)
    /\ host_state[h] = "get_model"
    /\ scan_pc' = "panicked"
    /\ UNCHANGED <<n_hosts, next_host, host_state, host_output, miners, notScan>>

\* the stream is spent and no future is held: collect() completes, Ok(miners)
ScanReturns ==
    /\ scan_pc = "scanning"
    /\ next_host = n_hosts
    /\ InFlight = {}
    /\ scan_pc' = "returned"
    /\ UNCHANGED <<n_hosts, next_host, host_state, host_output, miners, notScan>>

NextScan ==
    \/ StartHost
    \/ \E h \in Hosts : DiscoveryNone(h)
    \/ \E h \in Hosts : DiscoveryClassified(h)
    \/ \E h \in Hosts : \E result \in {<<"Ok", Some(h)>>, <<"Err">>} : GetMinerReturns(h, result)
    \/ \E h \in Hosts : GetMinerPanics(h)
    \/ ScanReturns

SpecScan == InitScan /\ [][NextScan]_vars

\* the scanner's own steps always run; phase 1 of a pipeline ends at its
\* deadline; nothing bounds the follow-up query of phase 2
FairSpecScan ==
    /\ SpecScan
    /\ WF_vars(StartHost)
    /\ WF_vars(ScanReturns)
    /\ \A h \in Hosts : WF_vars(DiscoveryNone(h) \/ DiscoveryClassified(h))

\* ---- claims about the range scanner

\* every host of the range went through its pipeline
AllHostsProcessed == \A h \in 1..n_hosts : host_state[h] = "done"

\* C14: at most MAX_CONCURRENT_TASKS pipelines are in flight at any moment, a
\* host starts only while a slot is free, and every host of the range is
\* eventually processed.
C14_CapAndEveryHostProcessed ==
    /\ [](Cardinality(InFlight) <= MAX_CONCURRENT_TASKS)
    /\ [][next_host' # next_host => Cardinality(InFlight) < MAX_CONCURRENT_TASKS]_vars
    /\ <>AllHostsProcessed

\* C15: a failure at one address never aborts the scan: the scan does not
\* panic, and when it returns it returns exactly the miners of the addresses
\* whose pipeline yielded one.
C15_FailuresDoNotAbortScan ==
    /\ scan_pc # "panicked"
    /\ scan_pc = "returned" =>
        /\ AllHostsProcessed
        /\ {miners[i] : i \in DOMAIN miners} =
                {h \in 1..n_hosts : host_output[h] # None}
        /\ Len(miners) = Cardinality({h \in 1..n_hosts : host_output[h] # None})

\* ======================================================================
\* VnishWebAPI::send_command (backends/vnish/web.rs)
\* ======================================================================

MaxRetries == 2
MaxDepth == 3

\* what the device can answer to a request: a transport error, or a response
\* with a status and a body that is JSON or is not
VnResponses ==
    {[tag |-> "Err", status |-> 0, json |-> None]} \cup
    {[tag |-> "Ok", status |-> st, json |-> j] :
        st \in {200, 401, 500}, j \in {None, Some("json_data")}}

is_success(status) == status >= 200 /\ status < 300

HttpError(status) == IF status = 401 THEN "HttpError(401)" ELSE "HttpError(500)"

VnErr(e) == <<"Err", e>>

should_retry_with_auth(attempt) ==
    vn_auto_authenticate /\ attempt = 0 /\ vn_password # None

InitVn ==
    /\ IdleExcept("vn")
    /\ vn_pc = "request"
    /\ vn_retries \in 0..MaxRetries
    /\ vn_auto_authenticate \in BOOLEAN
    /\ vn_password \in {None, Some("admin")}
    /\ vn_bearer_token \in {None, Some("token")}
    /\ vn_attempt = 0
    /\ vn_depth = 0
    /\ vn_unlocks = 0
    /\ vn_requests = 0
    /\ vn_result = Pending

\* a loop whose last pass does not return its error and falls through to
\* the end of send_command
end_of_attempt_falls_through(error) ==
    IF vn_attempt = vn_retries
    THEN /\ vn_result' = VnErr("MaxRetriesExceeded")
         /\ vn_pc' = "done"
         /\ vn_attempt' = vn_attempt
    ELSE /\ vn_attempt' = vn_attempt + 1
         /\ vn_pc' = "request"
         /\ vn_result' = vn_result

\* the end of one pass of the loop that did not return a value: the last
\* attempt returns the error, any other goes on to the next attempt
end_of_attempt(error) ==
    IF vn_attempt = vn_retries
    THEN /\ vn_result' = VnErr(error)
         /\ vn_pc' = "done"
         /\ vn_attempt' = vn_attempt
    ELSE /\ vn_attempt' = vn_attempt + 1
         /\ vn_pc' = "request"
         /\ vn_result' = vn_result

\* execute_request answers, and the match on its result up to the next await
ExecuteRequest(response) ==
    /\ vn_pc = "request"
    /\ IF response.tag = "Err"
       THEN end_of_attempt("NetworkError")
       ELSE IF is_success(response.status)
       THEN IF response.json # None
            THEN /\ vn_result' = Ok(response.json[2])
                 /\ vn_pc' = "done"
                 /\ vn_attempt' = vn_attempt
            ELSE end_of_attempt("ParseError")
       ELSE IF response.status = 401 /\ should_retry_with_auth(vn_attempt)
       THEN /\ vn_pc' = "unlock"
            /\ UNCHANGED <<vn_attempt, vn_result>>
       ELSE end_of_attempt(HttpError(response.status))
    /\ vn_requests' = vn_requests + 1
    /\ UNCHANGED <<vn_retries, vn_auto_authenticate, vn_password, vn_bearer_token,
                   vn_depth, vn_unlocks>>
    /\ UNCHANGED notVn

\* retry_with_token: a copy of the client carrying the token sends the
\* command again, and what that send_command returns is returned
retry_with_token(token) ==
    /\ vn_bearer_token' = Some(token)
    /\ vn_depth' = vn_depth + 1
    /\ vn_attempt' = 0
    /\ vn_pc' = "request"
    /\ vn_result' = vn_result

\* try_authenticate: the unlock request is sent and answered
TryAuthenticate(token) ==
    /\ vn_pc = "unlock"
    /\ vn_unlocks' = vn_unlocks + 1
    /\ IF token # None
       THEN /\ vn_depth < MaxDepth
            /\ retry_with_token(token[2])
       ELSE /\ IF vn_attempt = vn_retries
               THEN /\ vn_result' = VnErr("Unauthorized")
                    /\ vn_pc' = "done"
                    /\ vn_attempt' = vn_attempt
               ELSE /\ vn_attempt' = vn_attempt + 1
                    /\ vn_pc' = "request"
                    /\ vn_result' = vn_result
            /\ UNCHANGED <<vn_bearer_token, vn_depth>>
    /\ UNCHANGED <<vn_retries, vn_auto_authenticate, vn_password, vn_requests>>
    /\ UNCHANGED notVn

NextVn ==
    \/ \E response \in VnResponses : ExecuteRequest(response)
    \/ \E token \in {None, Some("token")} : TryAuthenticate(token)

SpecVn == InitVn /\ [][NextVn]_vars

\* ---- claims about the VNish transport

\* each send_command, nested ones included, sends at most one unlock request
\* of its own
OneUnlockPerNesting == vn_unlocks <= vn_depth + 1

\* C16: within one send_command call the unlock request is issued at most
\* once, even if the device keeps answering 401 after a successful unlock.
C16_UnlockAtMostOnce == vn_unlocks <= 1

\* no re-authentication has succeeded: the call is the one the caller made
NoReauthSucceeded == vn_pc # "idle" /\ vn_depth = 0

\* the error of a pass of the loop that received this response
attempt_error(response) ==
    IF response.tag = "Err" THEN "NetworkError"
    ELSE IF is_success(response.status) THEN "ParseError"
    ELSE HttpError(response.status)

\* a response is received: a 2xx response with a JSON body returns that body
\* at once; any other response returns only in the last pass, and then its
\* own error
ReturnsBodyOrLastError ==
    \A response \in VnResponses :
        (NoReauthSucceeded /\ ExecuteRequest(response)) =>
            IF is_success(response.status) /\ response.tag = "Ok" /\ response.json # None
            THEN vn_pc' = "done" /\ vn_result' = Ok(response.json[2])
            ELSE \/ vn_result' = Pending /\ vn_attempt < vn_retries
                 \/ vn_result' = Pending /\ vn_pc' = "unlock" /\ vn_attempt = 0
                 \/ /\ vn_attempt = vn_retries /\ vn_pc' = "done"
                    /\ vn_result' = VnErr(attempt_error(response))

\* an unlock request that gives no token ends the call only in the last
\* pass, with Unauthorized
FailedUnlockIsUnauthorized ==
    (NoReauthSucceeded /\ TryAuthenticate(None)) =>
        \/ vn_result' = Pending /\ vn_attempt < vn_retries
        \/ vn_attempt = vn_retries /\ vn_pc' = "done" /\ vn_result' = VnErr("Unauthorized")

\* C27 as stated: in a send_command call in which no re-authentication
\* succeeds at most retries+1 HTTP requests are issued, the unlock request
\* among them.
C27_AtMostRetriesPlusOneHttpRequests ==
    NoReauthSucceeded => vn_requests + vn_unlocks <= vn_retries + 1

\* C27, amended: in a send_command call in which no re-authentication
\* succeeds at most retries+1 requests of the command and at most one unlock
\* request are issued; the first 2xx response with a JSON body is returned
\* at once; otherwise the call returns the error of the last attempt, after
\* exactly retries+1 requests, and never MaxRetriesExceeded.
C27_BoundedAttemptsLastErrorReturned ==
    /\ [](NoReauthSucceeded =>
            /\ vn_requests <= vn_retries + 1
            /\ vn_unlocks <= 1
            /\ vn_requests + vn_unlocks <= vn_retries + 2
            /\ vn_result # VnErr("MaxRetriesExceeded")
            /\ (vn_result # Pending /\ vn_result[1] = "Err") =>
                   (vn_attempt = vn_retries /\ vn_requests = vn_retries + 1)
            /\ (vn_pc = "done") => vn_result # Pending)
    /\ [][ReturnsBodyOrLastError]_vars
    /\ [][FailedUnlockIsUnauthorized]_vars

\* C27 witness: with two retries and no token granted, three requests of
\* the command and one unlock request were sent and the call returned the
\* error of the third.
C27_Witness ==
    /\ NoReauthSucceeded /\ vn_retries = 2
    /\ vn_requests = 3 /\ vn_unlocks = 1
    /\ vn_pc = "done" /\ vn_result = VnErr("ParseError")

\* ======================================================================
\* CGMinerRPC (api/rpc/cgminer.rs, api/rpc/status.rs)
\* ======================================================================

\* serde_json's Value::get(&str), as_array and as_str
json_get(value, key) ==
    IF value[1] = "Obj" /\ \E i \in 1..Len(value[2]) : value[2][i][1] = key
    THEN Some(value[2][CHOOSE i \in 1..Len(value[2]) : value[2][i][1] = key][2])
    ELSE None
json_as_array(value) == IF value[1] = "Arr" THEN Some(value[2]) ELSE None
json_as_str(value) == IF value[1] = "Str" THEN Some(value[2]) ELSE None

JNum == <<"Num", 0>>

\* the status codes tried: the two successes, the error, and codes no arm names
StatusCodes == {"S", "I", "E", "W", "s", ""}

\* an element of a STATUS array
StatusItems ==
    {JNull, JStr("S"), JObj(<< >>), JObj(<< <<"Msg", JStr("m")>> >>),
     JObj(<< <<"STATUS", JNum>> >>), JObj(<< <<"STATUS", JArr(<<JStr("S")>>)>> >>)}
    \cup {JObj(<< <<"STATUS", JStr(code)>> >>) : code \in StatusCodes}
    \cup {JObj(<< <<"STATUS", JStr(code)>>, <<"Msg", m>> >>) :
                code \in StatusCodes, m \in {JStr("m"), JNum}}

\* the documents a device can answer with
RpcDocuments ==
    {JNull, JArr(<< >>), JStr("S"), JObj(<< >>),
     JObj(<< <<"SUMMARY", JArr(<< >>)>> >>),
     JObj(<< <<"STATUS", JStr("S")>> >>),
     JObj(<< <<"STATUS", JObj(<< <<"STATUS", JStr("S")>> >>)>> >>),
     JObj(<< <<"STATUS", JArr(<< >>)>> >>),
     JObj(<< <<"status", JArr(<< JObj(<< <<"STATUS", JStr("S")>> >>) >>)>> >>)}
    \cup {JObj(<< <<"STATUS", JArr(<<item>>)>> >>) : item \in StatusItems}
    \cup {JObj(<< <<"STATUS", JArr(<<item, JObj(<< <<"STATUS", JStr(code)>> >>)>>)>>,
                  <<"SUMMARY", JArr(<< >>)>> >>) :
                item \in StatusItems, code \in {"S", "E"}}

RpcResponses ==
    {[parses |-> FALSE, document |-> JNull]}
    \cup {[parses |-> TRUE, document |-> d] : d \in RpcDocuments}

RpcCommands == {RPC("summary", None), WebAPI("summary", "GET", None)}

\* RPCError and the Result values
StatusCheckFailed(msg) == <<"StatusCheckFailed", msg>>
ConnectionFailed == <<"ConnectionFailed", "">>
RpcErr(e) == <<"Err", e>>
unwrap_or(option, default) == IF option = None THEN default ELSE option[2]

\* RPCCommandStatus::from_str
from_str_unknown_ok(response, message) ==
    CASE response = "S" -> <<"Success">>
      [] response = "I" -> <<"Information">>
      [] response = "E" -> <<"Error", unwrap_or(message, "Unknown error")>>
      [] OTHER -> <<"Success">>

from_str(response, message) ==
    CASE response = "S" -> <<"Success">>
      [] response = "I" -> <<"Information">>
      [] response = "E" -> <<"Error", unwrap_or(message, "Unknown error")>>
      [] OTHER -> <<"Unknown">>

\* RPCCommandStatus::into_result
into_result(status) ==
    CASE status[1] = "Success" -> Ok("()")
      [] status[1] = "Information" -> Ok("()")
      [] status[1] = "Error" -> RpcErr(StatusCheckFailed(status[2]))
      [] OTHER -> RpcErr(StatusCheckFailed("Unknown status"))

\* Option::and_then with as_array / as_str
and_then_as_array(option) == IF option = None THEN None ELSE json_as_array(option[2])
and_then_as_str(option) == IF option = None THEN None ELSE json_as_str(option[2])

\* CGMinerRPC::parse_rpc_result
parse_rpc_result(response) ==
    IF ~response.parses THEN RpcErr(<<"Json", "">>)
    ELSE LET parsed == response.document
             status_array == and_then_as_array(json_get(parsed, "STATUS"))
         IN  IF status_array # None /\ Len(status_array[2]) # 0
                  /\ and_then_as_str(json_get(status_array[2][1], "STATUS")) # None
             THEN LET status == and_then_as_str(json_get(status_array[2][1], "STATUS"))[2]
                      message == and_then_as_str(json_get(status_array[2][1], "Msg"))
                      result == into_result(from_str(status, message))
                  IN  IF result[1] = "Ok" THEN Ok(parsed) ELSE result
             ELSE RpcErr(StatusCheckFailed("Invalid response format"))

\* CGMinerRPC::send_command
rpc_send_command(transport, response) ==
    CASE transport = "connect_failed" -> RpcErr(ConnectionFailed)
      [] transport = "io_error" -> RpcErr(<<"Io", "">>)
      [] transport = "empty" -> RpcErr(StatusCheckFailed("No data returned from the API."))
      [] transport = "refused" -> RpcErr(ConnectionFailed)
      [] OTHER -> parse_rpc_result(response)

\* RPCError's to_string
to_string(e) == <<"to_string", e>>

\* CGMinerRPC::get_api_result
rpc_get_api_result(command, transport, response) ==
    IF command.tag = "RPC"
    THEN LET result == rpc_send_command(transport, response)
         IN  IF result[1] = "Ok" THEN result ELSE RpcErr(to_string(result[2]))
    ELSE RpcErr("Cannot send non RPC command to RPC API")

InitRpc ==
    /\ IdleExcept("rpc")
    /\ rpc_command \in {Some(c) : c \in RpcCommands}
    /\ rpc_transport \in {"connect_failed", "io_error", "empty", "refused", "data"}
    /\ rpc_response \in {Some(r) : r \in RpcResponses}
    /\ rpc_transport # "data" => rpc_response = Some([parses |-> FALSE, document |-> JNull])
    /\ rpc_result = Pending

GetApiResult ==
    /\ rpc_result = Pending
    /\ rpc_result' = Return(rpc_get_api_result(rpc_command[2], rpc_transport, rpc_response[2]))
    /\ UNCHANGED <<rpc_command, rpc_transport, rpc_response>>
    /\ UNCHANGED notRpc

NextRpc == GetApiResult

SpecRpc == InitRpc /\ [][NextRpc]_vars

\* ---- claims about CGMinerRPC

\* the document's STATUS[0].STATUS, when the document has that shape
FirstStatus(document) ==
    IF /\ document[1] = "Obj"
       /\ \E i \in 1..Len(document[2]) :
            /\ document[2][i][1] = "STATUS"
            /\ document[2][i][2][1] = "Arr"
            /\ Len(document[2][i][2][2]) >= 1
            /\ document[2][i][2][2][1][1] = "Obj"
            /\ \E j \in 1..Len(document[2][i][2][2][1][2]) :
                    /\ document[2][i][2][2][1][2][j][1] = "STATUS"
                    /\ document[2][i][2][2][1][2][j][2][1] = "Str"
    THEN LET i == CHOOSE i \in 1..Len(document[2]) : document[2][i][1] = "STATUS"
             first == document[2][i][2][2][1][2]
             j == CHOOSE j \in 1..Len(first) : first[j][1] = "STATUS"
         IN  Some(first[j][2][2])
    ELSE None

Answered ==
    /\ rpc_command[2].tag = "RPC"
    /\ rpc_transport = "data"
    /\ rpc_response[2].parses

\* C17: the command succeeds, with the response as its value, exactly when the
\* device answered a document whose STATUS[0].STATUS is "S" or "I"; status
\* "E", any other code, and a missing or empty STATUS array are a failed
\* command, as a transport failure is.
C17_VendorErrorIsCommandFailure ==
    rpc_result # Pending =>
        LET result == rpc_result[2]
            accepted == /\ Answered
                        /\ FirstStatus(rpc_response[2].document) \in {Some("S"), Some("I")}
        IN  /\ result[1] \in {"Ok", "Err"}
            /\ result[1] = "Ok" <=> accepted
            /\ result[1] = "Ok" => result[2] = rpc_response[2].document

\* a device answered status "E" and the command failed
C17_Witness ==
    /\ rpc_result # Pending
    /\ Answered
    /\ FirstStatus(rpc_response[2].document) = Some("E")
    /\ rpc_result[2][1] = "Err"

\* ======================================================================
\* DeviceInfo::new (data/device/mod.rs)
\* ======================================================================

HashAlgorithm == {"SHA256", "Scrypt"}

\* MinerModel: the variant and the vendor's model name
DeviceModels ==
    {<<"AntMiner", "S19">>, <<"AntMiner", "S21">>, <<"WhatsMiner", "M30S">>,
     <<"AvalonMiner", "A1246">>}

\* the vendor's static lookup From<&XModel> for MinerHardware
VendorHardware(model_name) ==
    CASE model_name = "S19" -> [chips |-> Some(76), fans |-> Some(4), boards |-> Some(3)]
      [] model_name = "S21" -> [chips |-> Some(108), fans |-> Some(4), boards |-> Some(3)]
      [] model_name = "M30S" -> [chips |-> Some(148), fans |-> Some(2), boards |-> Some(3)]
      [] OTHER -> [chips |-> None, fans |-> None, boards |-> None]

\* impl From<&MinerModel> for MinerHardware
MinerHardware_from(model) ==
    CASE model[1] = "AntMiner" -> VendorHardware(model[2])
      [] model[1] = "WhatsMiner" -> VendorHardware(model[2])
      [] model[1] = "Braiins" -> VendorHardware(model[2])
      [] model[1] = "Bitaxe" -> VendorHardware(model[2])
      [] model[1] = "EPic" -> VendorHardware(model[2])
      [] model[1] = "AvalonMiner" -> VendorHardware(model[2])

\* a constructor taking the hardware of the make's first model
DeviceInfo_new_by_make(make, model, firmware, algo) ==
    [make |-> make,
     hardware |-> MinerHardware_from(
        CHOOSE m \in DeviceModels :
            m[1] = (IF \E n \in DeviceModels : n[1] = make THEN make ELSE "AvalonMiner")),
     model |-> model,
     firmware |-> firmware,
     algo |-> algo]

\* DeviceInfo::new
DeviceInfo_new(make, model, firmware, algo) ==
    [make |-> make,
     hardware |-> MinerHardware_from(model),
     model |-> model,
     firmware |-> firmware,
     algo |-> algo]

DeviceArgs ==
    [make : {"AntMiner", "WhatsMiner", "AvalonMiner"},
     model : DeviceModels,
     firmware : {"Stock", "VNish"},
     algo : HashAlgorithm]

InitDev ==
    /\ IdleExcept("dev")
    /\ dev_args \in [1..2 -> DeviceArgs]
    /\ dev_info = [call \in 1..2 |-> Pending]

New(call) ==
    /\ dev_info[call] = Pending
    /\ dev_info' = [dev_info EXCEPT ![call] =
            Return(DeviceInfo_new(dev_args[call].make, dev_args[call].model,
                                  dev_args[call].firmware, dev_args[call].algo))]
    /\ UNCHANGED dev_args
    /\ UNCHANGED notDev

NextDev == \E call \in 1..2 : New(call)

SpecDev == InitDev /\ [][NextDev]_vars

\* ---- claims about DeviceInfo

Built(call) == dev_info[call] # Pending

\* C18: DeviceInfo::new keeps its four arguments and sets hardware to
\* MinerHardware::from(&model); two values built from the same model have
\* equal hardware whatever make, firmware and algo were passed.
C18_HardwareFromModelAlone ==
    /\ \A call \in DOMAIN dev_info : Built(call) =>
            /\ dev_info[call][2].hardware = MinerHardware_from(dev_args[call].model)
            /\ dev_info[call][2].model = dev_args[call].model
            /\ dev_info[call][2].make = dev_args[call].make
            /\ dev_info[call][2].firmware = dev_args[call].firmware
            /\ dev_info[call][2].algo = dev_args[call].algo
    /\ \A a, b \in DOMAIN dev_info :
            Built(a) /\ Built(b) /\ dev_args[a].model = dev_args[b].model
                => dev_info[a][2].hardware = dev_info[b][2].hardware

\* two values were built from one model with every other argument differing
C18_Witness ==
    /\ DOMAIN dev_info = 1..2
    /\ Built(1) /\ Built(2)
    /\ dev_args[1].model = dev_args[2].model
    /\ dev_args[1].make # dev_args[2].make
    /\ dev_args[1].firmware # dev_args[2].firmware
    /\ dev_args[1].algo # dev_args[2].algo
    /\ dev_info[1][2].hardware = dev_info[2][2].hardware
    /\ dev_info[1][2].hardware.chips # None

\* ======================================================================
\* AvalonMiner (backends/avalon/avalon_miner.rs)
\* ======================================================================

\* Text is a sequence of lexemes: a word, or one of the separators the code
\* looks for ("[", "]", " ", ",", ":", "-", "/").

\* str::split(sep)
RECURSIVE split_by(_, _)
split_by(text, sep) ==
    IF \E i \in 1..Len(text) : text[i] = sep
    THEN LET i == CHOOSE i \in 1..Len(text) :
                    text[i] = sep /\ \A j \in 1..(i - 1) : text[j] # sep
         IN  <<SubSeq(text, 1, i - 1)>> \o split_by(SubSeq(text, i + 1, Len(text)), sep)
    ELSE <<text>>

\* str::split_whitespace: the pieces between spaces, empty ones dropped
split_whitespace(text) == SelectSeq(split_by(text, " "), LAMBDA piece : piece # << >>)

\* str::trim and str::trim_end_matches
RECURSIVE trim_end_matches(_, _)
trim_end_matches(text, c) ==
    IF text # << >> /\ text[Len(text)] = c
    THEN trim_end_matches(SubSeq(text, 1, Len(text) - 1), c)
    ELSE text
RECURSIVE trim_start(_)
trim_start(text) ==
    IF text # << >> /\ text[1] = " " THEN trim_start(Tail(text)) ELSE text
trim(text) == trim_start(trim_end_matches(text, " "))

\* str::contains(": ") and str::split_once(": ")
ColonSpaceAt(text) == {i \in 1..(Len(text) - 1) : text[i] = ":" /\ text[i + 1] = " "}
contains_colon_space(text) == ColonSpaceAt(text) # {}
split_once_colon_space(text) ==
    LET i == CHOOSE i \in ColonSpaceAt(text) : \A j \in ColonSpaceAt(text) : i <= j
    IN  <<SubSeq(text, 1, i - 1), SubSeq(text, i + 2, Len(text))>>

\* item.splitn(2, '[')
splitn_2(item) ==
    IF \E i \in 1..Len(item) : item[i] = "["
    THEN LET i == CHOOSE i \in 1..Len(item) :
                    item[i] = "[" /\ \A j \in 1..(i - 1) : item[j] # "["
         IN  <<SubSeq(item, 1, i - 1), SubSeq(item, i + 1, Len(item))>>
    ELSE <<item>>

\* Regex .+?\[.*?] with find_iter: the successive matches, each from where
\* the last ended: at least one lexeme, up to the first "[" after it, up to
\* the first "]" after that
RECURSIVE find_iter(_)
find_iter(text) ==
    LET opens == {q \in 2..Len(text) : text[q] = "["}
    IN  IF opens = {} THEN << >>
        ELSE LET q == CHOOSE q \in opens : \A o \in opens : q <= o
                 closes == {r \in (q + 1)..Len(text) : text[r] = "]"}
             IN  IF closes = {} THEN << >>
                 ELSE LET r == CHOOSE r \in closes : \A c \in closes : r <= c
                      IN  <<SubSeq(text, 1, r)>> \o find_iter(SubSeq(text, r + 1, Len(text)))

\* Map::insert and HashMap::insert over a sequence of <<key, value>>: the
\* entry of a key already present is replaced
insert(map, key, value) ==
    SelectSeq(map, LAMBDA entry : entry[1] # key) \o << <<key, value>> >>

\* the [...] of an item with ": " in it, as a one-element array of a map
RECURSIVE insert_pairs(_, _)
insert_pairs(map, pairs) ==
    IF pairs = << >> THEN map
    ELSE LET kv == split_once_colon_space(Head(pairs))
         IN  insert_pairs(insert(map, kv[1], JStr(kv[2])), Tail(pairs))
RECURSIVE insert_chunks(_, _)
insert_chunks(map, all_args) ==
    IF Len(all_args) < 2 THEN map
    ELSE insert_chunks(insert(map, all_args[1], JStr(all_args[2])),
                       SubSeq(all_args, 3, Len(all_args)))
key_value_item(inner_content) ==
    LET pieces == split_by(inner_content, ",")
        pairs == [i \in 1..Len(pieces) |-> trim(pieces[i])]
        is_key_value == \A i \in 1..Len(pairs) : contains_colon_space(pairs[i])
    IN  JArr(<< JObj(IF is_key_value
                    THEN insert_pairs(<< >>, pairs)
                    ELSE insert_chunks(<< >>, split_whitespace(inner_content))) >>)

\* one pass of the loop of parse_stats
parse_stats_item(stats_dict, item) ==
    LET parts == splitn_2(item)
    IN  IF Len(parts) # 2 THEN stats_dict
        ELSE IF contains_colon_space(item)
        THEN insert(stats_dict, trim(parts[1]),
                    key_value_item(trim_end_matches(parts[2], "]")))
        ELSE LET key_components == split_whitespace(trim(parts[1]))
                 vals == split_whitespace(trim_end_matches(parts[2], "]"))
             IN  IF key_components = << >> THEN stats_dict
                 ELSE insert(stats_dict, key_components[1],
                             JArr([i \in 1..Len(vals) |-> JStr(vals[i])]))

RECURSIVE parse_stats_fold(_, _)
parse_stats_fold(stats_dict, items) ==
    IF items = << >> THEN stats_dict
    ELSE parse_stats_fold(parse_stats_item(stats_dict, Head(items)), Tail(items))

\* parse_stats
parse_stats(response) == JObj(parse_stats_fold(<< >>, find_iter(response)))

\* serde_json's Value::get(usize)
json_index(value, n) ==
    IF value[1] = "Arr" /\ n < Len(value[2]) THEN Some(value[2][n + 1]) ELSE None

JNumber(n) == <<"Num", n>>
Key(word) == <<word>>
Member(word, value) == <<Key(word), value>>

\* str::parse::<u32>, ::<u16> and ::<f64> of the words used
parse_int(text) ==
    IF Len(text) # 1 THEN None
    ELSE CASE text[1] = "0" -> Some(0)
           [] text[1] = "1" -> Some(1)
           [] text[1] = "2" -> Some(2)
           [] text[1] = "45" -> Some(45)
           [] text[1] = "50" -> Some(50)
           [] text[1] = "100" -> Some(100)
           [] text[1] = "104" -> Some(104)
           [] text[1] = "5000" -> Some(5000)
           [] OTHER -> None
parse_f64(text) == parse_int(text)

\* the commands of AvalonMiner::get_locations
AvalonCommands == {"version", "stats", "devs", "pools"}

\* AvalonMiner::get_locations: per field, the (command, JSON pointer) pairs
get_locations_Avalon(data_field) ==
    CASE data_field = "Mac" ->
            << <<"version", <<"/","VERSION","/","0","/","MAC">> >> >>
      [] data_field = "ApiVersion" ->
            << <<"version", <<"/","VERSION","/","0","/","API">> >> >>
      [] data_field = "FirmwareVersion" ->
            << <<"version", <<"/","VERSION","/","0","/","CGMiner">> >> >>
      [] data_field = "Hashboards" -> << <<"stats", <<"/","STATS">> >> >>
      [] data_field = "Hashrate" ->
            << <<"devs", <<"/","DEVS","/","0","/","MHS 1m">> >> >>
      [] data_field = "Fans" -> << <<"stats", <<"/","STATS">> >> >>
      [] data_field = "Wattage" -> << >>
      [] data_field = "Uptime" ->
            << <<"stats", <<"/","STATS","/","0","/","Elapsed">> >> >>
      [] data_field = "Pools" -> << <<"pools", <<"/","POOLS">> >> >>
      [] OTHER -> << >>

\* collect_all over the Avalon locations: every field has at most one
\* location, so a field's entry is what its extractor finds in the response
\* of its command, when the command succeeded and the extractor found a value
avalon_field_value(responses, data_field) ==
    LET locations == get_locations_Avalon(data_field)
    IN  IF locations = << >> THEN None
        ELSE IF responses[locations[1][1]][1] # "Ok" THEN None
        ELSE pointer(responses[locations[1][1]][2], locations[1][2])

avalon_collect_all(responses) ==
    [data_field \in {f \in DataField : avalon_field_value(responses, f) # None} |->
        avalon_field_value(responses, data_field)[2]]

\* HashMap::get
data_get(data, data_field) ==
    IF \E f \in DOMAIN data : f = data_field THEN Some(data[data_field]) ELSE None

\* DataExtensions::extract::<String> and extract_map::<f64 / u64, _>
extract_String(data, data_field) ==
    LET value == data_get(data, data_field)
    IN  IF value # None /\ value[2][1] = "Str" THEN Some(value[2][2]) ELSE None
extract_number(data, data_field) ==
    LET value == data_get(data, data_field)
    IN  IF value # None /\ value[2][1] = "Num" THEN Some(value[2][2]) ELSE None

\* Option::and_then chains of get_data
get_0_as_str(option) ==
    IF option = None THEN None
    ELSE and_then_as_str(json_index(option[2], 0))

\* get_data: the text of STATS[0]["MM ID1"] in the Hashboards entry
stats_str_of(data) ==
    LET stats_value == data_get(data, "Hashboards")
        stats_array == IF stats_value = None THEN None
                       ELSE json_get(stats_value[2], Key("STATS"))
        stats_obj == IF stats_array = None THEN None ELSE json_index(stats_array[2], 0)
    IN  IF stats_obj = None THEN None
        ELSE and_then_as_str(json_get(stats_obj[2], Key("MM ID1")))

\* get_data: the boards built from the parsed stats
hashboards_of(parsed_stats) ==
    LET elapsed == get_0_as_str(json_get(parsed_stats, Key("Elapsed")))
        mw_array == and_then_as_array(json_get(parsed_stats, Key("MW")))
        mw_all == IF mw_array = None THEN << >>
                  ELSE [i \in 1..Len(mw_array[2]) |->
                            IF json_as_str(mw_array[2][i]) = None THEN None
                            ELSE parse_f64(json_as_str(mw_array[2][i])[2])]
        mw_vec == SelectSeq(mw_all, LAMBDA mw : mw # None)
        hbs == Len(mw_vec)
        ta == get_0_as_str(json_get(parsed_stats, Key("TA")))
        total_chips == IF ta = None \/ parse_int(ta[2]) = None THEN 0 ELSE parse_int(ta[2])[2]
        chips_per_board == IF hbs > 0 THEN total_chips \div hbs ELSE 0
        mm_temp == json_get(parsed_stats, <<"MM", " ", "Temp">>)
        temp_val == json_get(parsed_stats, Key("Temp"))
        temps == IF get_0_as_str(mm_temp) = None THEN << >>
                 ELSE LET pieces == split_by(get_0_as_str(mm_temp)[2], "-")
                      IN  SelectSeq([i \in 1..Len(pieces) |-> parse_f64(pieces[i])],
                                    LAMBDA t : t # None)
        board_temps ==
            IF mm_temp # None
            THEN IF get_0_as_str(mm_temp) # None /\ Len(temps) = hbs
                 THEN [i \in 1..hbs |-> temps[i][2]]
                 ELSE [i \in 1..hbs |-> 0]
            ELSE IF get_0_as_str(temp_val) # None
            THEN [i \in 1..hbs |-> unwrap_or(parse_f64(get_0_as_str(temp_val)[2]), 0)]
            ELSE [i \in 1..hbs |-> 0]
    IN  [i \in 1..hbs |->
            [position |-> i - 1,
             hashrate |-> Some(<<"mw * 2^32 / elapsed / 1e12", mw_vec[i][2],
                                 IF elapsed = None THEN None ELSE parse_f64(elapsed[2])>>),
             board_temperature |-> Some(board_temps[i]),
             expected_chips |-> Some(chips_per_board),
             working_chips |-> Some(chips_per_board),
             active |-> Some(TRUE)]]

\* get_data: the fans built from the parsed stats
fans_of(parsed_stats) ==
    LET speed_str == get_0_as_str(json_get(parsed_stats, Key("Fan")))
    IN  IF speed_str # None /\ parse_int(speed_str[2]) # None
        THEN << [position |-> 0, rpm |-> Some(parse_int(speed_str[2])[2])] >>
        ELSE << >>

\* get_data: the pools built from the Pools entry
option_of(option, f(_)) == IF option = None THEN None ELSE Some(f(option[2]))
is_alive(status) == status = <<"Alive">>
pools_of(data) ==
    LET pools_value == data_get(data, "Pools")
        pools_array == IF pools_value = None THEN None
                       ELSE and_then_as_array(json_get(pools_value[2], Key("POOLS")))
        objects == IF pools_array = None THEN << >>
                   ELSE SelectSeq([i \in 1..Len(pools_array[2]) |-> <<i - 1, pools_array[2][i]>>],
                                  LAMBDA pool : pool[2][1] = "Obj")
    IN  [i \in 1..Len(objects) |->
            [position |-> Some(objects[i][1]),
             url |-> and_then_as_str(json_get(objects[i][2], Key("URL"))),
             user |-> and_then_as_str(json_get(objects[i][2], Key("User"))),
             alive |-> option_of(and_then_as_str(json_get(objects[i][2], Key("Status"))),
                                 is_alive),
             active |-> Some(TRUE)]]

\* is_mining with the pools taken as alive when there are none
is_mining_all(pools) == \A i \in 1..Len(pools) : pools[i].alive = Some(TRUE)

\* get_data: is_mining
is_mining(pools) == pools # << >> /\ \E i \in 1..Len(pools) : pools[i].alive = Some(TRUE)

\* get_data after collect_all: the MinerData built from the collected map
get_data(ip, data) ==
    LET stats_str == stats_str_of(data)
        stats_parsed == stats_str # None
        parsed_stats == IF stats_parsed THEN parse_stats(stats_str[2]) ELSE JObj(<< >>)
        hashboards == IF stats_parsed THEN hashboards_of(parsed_stats) ELSE << >>
        fans == IF stats_parsed THEN fans_of(parsed_stats) ELSE << >>
        pools == pools_of(data)
    IN  [ip |-> ip,
         mac |-> extract_String(data, "Mac"),
         api_version |-> extract_String(data, "ApiVersion"),
         firmware_version |-> extract_String(data, "FirmwareVersion"),
         wattage |-> extract_number(data, "Wattage"),
         uptime |-> extract_number(data, "Uptime"),
         hashrate |-> option_of(extract_number(data, "Hashrate"), LAMBDA mhs : <<"mhs / 1e6", mhs>>),
         hashboards |-> hashboards,
         fans |-> fans,
         psu_fans |-> << >>,
         average_temperature |->
            IF hashboards # << >>
            THEN Some(<<"mean", [i \in 1..Len(hashboards) |-> hashboards[i].board_temperature[2]]>>)
            ELSE None,
         pools |-> pools,
         is_mining |-> is_mining(pools)]

\* the MM ID1 texts tried
FanToken(word) == <<"Fan", "[", word, "]">>
StatsTexts ==
    { FanToken("5000") \o <<" ","Temp","[","45","-","50","]"," ","MW","[","1"," ","2","]",
                             " ","Elapsed","[","100","]">>,
      FanToken("5000"),
      FanToken("0"),
      FanToken("x"),
      <<"Temp","[","45","]"," ","MW","[","1","]"," ","TA","[","104","]">> \o <<" ">> \o FanToken("100"),
      <<"Ver","[","a",":"," ","1",","," ","b",":"," ","2","]"," ">> \o FanToken("100"),
      <<"MW","[","1"," ","x"," ","2","]">>,
      << >> }

STATUS_S == Member("STATUS", JArr(<< JObj(<< Member("STATUS", JStr(<<"S">>)) >>) >>))

VersionDocuments ==
    { JObj(<< STATUS_S,
              Member("VERSION", JArr(<< JObj(<< Member("API", JStr(<<"3.7">>)),
                                                Member("CGMiner", JStr(<<"4.9.0">>)),
                                                Member("MAC", JStr(<<"00:11">>)) >>) >>)) >>),
      JObj(<< STATUS_S, Member("VERSION", JArr(<< JObj(<< Member("API", JNumber(3)) >>) >>)) >>) }
StatsDocuments ==
    { JObj(<< STATUS_S, Member("STATS", JArr(<< JObj(<< Member("MM ID1", JStr(text)),
                                                      Member("Elapsed", JNumber(100)) >>) >>)) >>) :
        text \in StatsTexts }
    \cup { JObj(<< STATUS_S, Member("STATS", JArr(<< JObj(<< Member("Type", JStr(<<"Avalon6">>)) >>) >>)) >>),
           JObj(<< STATUS_S, Member("STATS", JArr(<< >>)) >>) }
DevsDocuments ==
    { JObj(<< STATUS_S, Member("DEVS", JArr(<< JObj(<< Member("MHS 1m", JNumber(5000)) >>) >>)) >>) }
PoolsDocuments ==
    { JObj(<< STATUS_S, Member("POOLS", JArr(<< JObj(<< Member("URL", JStr(<<"stratum">>)),
                                                      Member("Status", JStr(<<"Alive">>)) >>) >>)) >>),
      JObj(<< STATUS_S, Member("POOLS", JArr(<< >>)) >>) }

AvalonDocuments(command) ==
    CASE command = "version" -> VersionDocuments
      [] command = "stats" -> StatsDocuments
      [] command = "devs" -> DevsDocuments
      [] command = "pools" -> PoolsDocuments

\* what the transport answers to each command
AvalonResponses ==
    {responses \in [AvalonCommands -> {Err} \cup {Ok(d) : d \in
                        UNION {AvalonDocuments(c) : c \in AvalonCommands}}] :
        \A c \in AvalonCommands :
            responses[c] = Err \/ responses[c][2] \in AvalonDocuments(c)}

InitAvalon ==
    /\ IdleExcept("av")
    /\ av_pc = "collect"
    /\ av_ip \in {"192.168.1.100", "10.0.0.7"}
    /\ av_responses \in AvalonResponses
    /\ av_data = Pending
    /\ av_miner_data = Pending

\* collector.collect_all().await
AvalonCollectAll ==
    /\ av_pc = "collect"
    /\ av_data' = Return(avalon_collect_all(av_responses))
    /\ av_pc' = "normalize"
    /\ UNCHANGED <<av_ip, av_responses, av_miner_data>>
    /\ UNCHANGED notAv

\* the rest of get_data
AvalonNormalize ==
    /\ av_pc = "normalize"
    /\ av_miner_data' = Return(get_data(av_ip, av_data[2]))
    /\ av_pc' = "done"
    /\ UNCHANGED <<av_ip, av_responses, av_data>>
    /\ UNCHANGED notAv

NextAvalon == AvalonCollectAll \/ AvalonNormalize

SpecAvalon == InitAvalon /\ [][NextAvalon]_vars

\* ---- claims about AvalonMiner

\* the text of MM ID1 in the stats response, when the command succeeded
StatsText ==
    IF av_responses["stats"][1] # "Ok" THEN None
    ELSE LET found == pointer(av_responses["stats"][2], <<"/","STATS","/","0","/","MM ID1">>)
         IN  IF found = None THEN None ELSE json_as_str(found[2])

\* the text has the token Fan[word] and no other Fan
HasFanToken(text, word) ==
    /\ \E i \in 1..(Len(text) - 3) : SubSeq(text, i, i + 3) = FanToken(word)
    /\ Cardinality({i \in 1..Len(text) : text[i] = "Fan"}) = 1

\* C19: for a stats response whose MM ID1 string contains the token Fan[n]
\* with integer n, get_data yields exactly one FanData, position 0, rpm n.
C19_FanTokenBecomesOneFan ==
    \A n \in {0, 100, 5000} :
        \A word \in {"0", "100", "5000"} :
            (/\ av_pc = "done"
             /\ parse_int(<<word>>) = Some(n)
             /\ StatsText # None
             /\ HasFanToken(StatsText[2], word))
                => av_miner_data[2].fans = << [position |-> 0, rpm |-> Some(n)] >>

AllCommandsFail == \A c \in AvalonCommands : av_responses[c] = Err

\* C20: when every command fails, get_data still returns a MinerData with
\* the configured ip, api_version, firmware_version, hashrate, uptime and
\* average_temperature None, hashboards, pools and fans empty, is_mining false.
C20_MissingDataIsNotAnError ==
    (AllCommandsFail /\ av_pc = "done") =>
        /\ av_miner_data[1] = "Return"
        /\ av_miner_data[2].ip = av_ip
        /\ av_miner_data[2].api_version = None
        /\ av_miner_data[2].firmware_version = None
        /\ av_miner_data[2].hashrate = None
        /\ av_miner_data[2].uptime = None
        /\ av_miner_data[2].average_temperature = None
        /\ av_miner_data[2].hashboards = << >>
        /\ av_miner_data[2].pools = << >>
        /\ av_miner_data[2].fans = << >>
        /\ av_miner_data[2].is_mining = FALSE

\* every command failed and get_data returned
C20_Witness ==
    /\ AllCommandsFail
    /\ av_pc = "done"
    /\ av_data = Return(<< >>)
    /\ av_miner_data[1] = "Return"
    /\ av_miner_data[2].ip = "192.168.1.100"

\* ======================================================================
\* MinerFactory: the search lists and the start of get_miner (factory/mod.rs)
\* ======================================================================

MaxSearchLen == 3

\* the lists get_miner searches when none was set
DefaultSearchMakes ==
    <<"AntMiner", "WhatsMiner", "AvalonMiner", "EPic", "Braiins", "BitAxe">>
DefaultSearchFirmwares ==
    <<"Stock", "BraiinsOS", "VNish", "EPic", "HiveOS", "LuxOS", "Marathon", "MSKMiner">>

\* DiscoveryCommands::get_discovery_commands of a make and of a firmware
make_get_discovery_commands(make) ==
    CASE make = "AntMiner" -> <<"RPC version", "WebAPI /">>
      [] make = "WhatsMiner" -> <<"RPC devdetails", "WebAPI https /">>
      [] make = "AvalonMiner" -> <<"RPC version", "WebAPI /">>
      [] make = "EPic" -> <<"WebAPI /">>
      [] make = "Braiins" -> <<"RPC version", "WebAPI /">>
      [] make = "BitAxe" -> <<"WebAPI /">>
firmware_get_discovery_commands(firmware) ==
    CASE firmware = "Stock" -> << >>
      [] firmware = "BraiinsOS" -> <<"RPC version", "WebAPI /">>
      [] firmware = "VNish" -> <<"WebAPI /", "RPC version">>
      [] firmware = "EPic" -> <<"WebAPI /">>
      [] firmware = "HiveOS" -> << >>
      [] firmware = "LuxOS" -> <<"WebAPI /", "RPC version">>
      [] firmware = "Marathon" -> <<"RPC version">>
      [] firmware = "MSKMiner" -> <<"RPC version", "WebAPI /">>

\* Vec::push in place of HashSet::insert
HashSet_insert_push(set, command) == Append(set, command)

\* HashSet::insert: a command already in the set is not added
HashSet_insert(set, command) ==
    IF \E i \in 1..Len(set) : set[i] = command THEN set ELSE Append(set, command)

\* the two nested loops of get_miner over one list
RECURSIVE insert_all(_, _)
insert_all(set, command_list) ==
    IF command_list = << >> THEN set
    ELSE insert_all(HashSet_insert(set, Head(command_list)), Tail(command_list))
RECURSIVE insert_makes(_, _)
insert_makes(set, makes) ==
    IF makes = << >> THEN set
    ELSE insert_makes(insert_all(set, make_get_discovery_commands(Head(makes))), Tail(makes))
RECURSIVE insert_firmwares(_, _)
insert_firmwares(set, firmwares) ==
    IF firmwares = << >> THEN set
    ELSE insert_firmwares(insert_all(set, firmware_get_discovery_commands(Head(firmwares))),
                          Tail(firmwares))

\* Option::unwrap_or and Vec::retain(|val| *val != x)
list_or(option, default) == IF option = None THEN default ELSE option[2]
retain_ne(list, x) == SelectSeq(list, LAMBDA val : val # x)

\* the values the methods are called with
SomeMakes == {"AntMiner", "WhatsMiner", "BitAxe"}
SomeFirmwares == {"Stock", "VNish"}
ListsOver(values) == UNION {[1..n -> values] : n \in 0..2}

InitFactory ==
    /\ IdleExcept("fac")
    /\ search_makes = None
    /\ search_firmwares = None
    /\ fac_pc = "configuring"
    /\ fac_op = <<"new", "none">>
    /\ fac_commands = << >>
    /\ fac_spawned = << >>

with_search_makes(makes) ==
    /\ fac_pc = "configuring"
    /\ search_makes' = Some(makes)
    /\ fac_op' = <<"with_search_makes", "list">>
    /\ UNCHANGED <<search_firmwares, fac_pc, fac_commands, fac_spawned, notFac>>

with_search_firmwares(firmwares) ==
    /\ fac_pc = "configuring"
    /\ search_firmwares' = Some(firmwares)
    /\ fac_op' = <<"with_search_firmwares", "list">>
    /\ UNCHANGED <<search_makes, fac_pc, fac_commands, fac_spawned, notFac>>

add_search_make(make) ==
    /\ fac_pc = "configuring"
    /\ Len(list_or(search_makes, <<make>>)) < MaxSearchLen
    /\ search_makes' = Some(Append(list_or(search_makes, <<make>>), make))
    /\ fac_op' = <<"add_search_make", make>>
    /\ UNCHANGED <<search_firmwares, fac_pc, fac_commands, fac_spawned, notFac>>

add_search_firmware(firmware) ==
    /\ fac_pc = "configuring"
    /\ Len(list_or(search_firmwares, <<firmware>>)) < MaxSearchLen
    /\ search_firmwares' = Some(Append(list_or(search_firmwares, <<firmware>>), firmware))
    /\ fac_op' = <<"add_search_firmware", firmware>>
    /\ UNCHANGED <<search_makes, fac_pc, fac_commands, fac_spawned, notFac>>

\* a removal that sets an unset list to the default list without the make
remove_search_make_from_default(make) ==
    /\ fac_pc = "configuring"
    /\ search_makes' = Some(retain_ne(list_or(search_makes, DefaultSearchMakes), make))
    /\ fac_op' = <<"remove_search_make", make>>
    /\ UNCHANGED <<search_firmwares, fac_pc, fac_commands, fac_spawned, notFac>>

remove_search_make(make) ==
    /\ fac_pc = "configuring"
    /\ search_makes' = IF search_makes = None THEN None
                       ELSE Some(retain_ne(search_makes[2], make))
    /\ fac_op' = <<"remove_search_make", make>>
    /\ UNCHANGED <<search_firmwares, fac_pc, fac_commands, fac_spawned, notFac>>

remove_search_firmware(firmware) ==
    /\ fac_pc = "configuring"
    /\ search_firmwares' = IF search_firmwares = None THEN None
                           ELSE Some(retain_ne(search_firmwares[2], firmware))
    /\ fac_op' = <<"remove_search_firmware", firmware>>
    /\ UNCHANGED <<search_makes, fac_pc, fac_commands, fac_spawned, notFac>>

\* get_miner up to the spawning of the probes: the lists searched, the set
\* of their commands, one task per element of the set
GetMinerSpawn ==
    /\ fac_pc = "configuring"
    /\ LET makes == list_or(search_makes, DefaultSearchMakes)
           firmwares == list_or(search_firmwares, DefaultSearchFirmwares)
           set == insert_firmwares(insert_makes(<< >>, makes), firmwares)
       IN  /\ fac_commands' = set
           /\ fac_spawned' = set
    /\ fac_pc' = "spawned"
    /\ fac_op' = <<"get_miner", "ip">>
    /\ UNCHANGED <<search_makes, search_firmwares, notFac>>

NextFactory ==
    \/ \E makes \in ListsOver(SomeMakes) : with_search_makes(makes)
    \/ \E firmwares \in ListsOver(SomeFirmwares) : with_search_firmwares(firmwares)
    \/ \E make \in SomeMakes : add_search_make(make)
    \/ \E firmware \in SomeFirmwares : add_search_firmware(firmware)
    \/ \E make \in SomeMakes : remove_search_make(make)
    \/ \E firmware \in SomeFirmwares : remove_search_firmware(firmware)
    \/ GetMinerSpawn

SpecFactory == InitFactory /\ [][NextFactory]_vars

\* ---- claims about the factory

\* the commands of the makes and firmwares get_miner searches
SearchedCommands ==
    UNION {Range(make_get_discovery_commands(m)) :
                m \in Range(list_or(search_makes, DefaultSearchMakes))}
    \cup UNION {Range(firmware_get_discovery_commands(f)) :
                f \in Range(list_or(search_firmwares, DefaultSearchFirmwares))}

TasksWith(command) == Cardinality({i \in 1..Len(fac_spawned) : fac_spawned[i] = command})

\* C22: get_miner spawns exactly one task per distinct command of the union
\* of the commands of the searched makes and firmwares.
C22_OneTaskPerDistinctCommand ==
    fac_pc = "spawned" =>
        /\ \A command \in SearchedCommands : TasksWith(command) = 1
        /\ \A i \in 1..Len(fac_spawned) : fac_spawned[i] \in SearchedCommands

\* C22 witness: a make listed twice and a firmware sharing its commands with
\* it were searched, and each of their commands has one task.
C22_Witness ==
    /\ fac_pc = "spawned"
    /\ search_makes = Some(<<"AntMiner", "AntMiner">>)
    /\ search_firmwares = Some(<<"VNish">>)
    /\ Len(fac_spawned) = 2
    /\ TasksWith("RPC version") = 1
    /\ TasksWith("WebAPI /") = 1

\* the list without every occurrence of x, the rest in order
RECURSIVE Without(_, _)
Without(list, x) ==
    IF list = << >> THEN << >>
    ELSE IF Head(list) = x THEN Without(Tail(list), x)
    ELSE <<Head(list)>> \o Without(Tail(list), x)

\* C30: a removal on a list that was never set leaves it unset, and get_miner
\* then probes the commands of the whole default list; a removal on a set
\* list removes every occurrence of the value and nothing else, and leaves
\* the other list alone.
C30_RemoveOnUnsetIsNoOp ==
    /\ [][fac_op'[1] = "remove_search_make" =>
            /\ search_firmwares' = search_firmwares
            /\ search_makes = None => search_makes' = None
            /\ search_makes # None =>
                    search_makes' = Some(Without(search_makes[2], fac_op'[2]))]_vars
    /\ [][fac_op'[1] = "remove_search_firmware" =>
            /\ search_makes' = search_makes
            /\ search_firmwares = None => search_firmwares' = None
            /\ search_firmwares # None =>
                    search_firmwares' = Some(Without(search_firmwares[2], fac_op'[2]))]_vars
    /\ []((fac_pc = "spawned" /\ search_makes = None) =>
            \A m \in Range(DefaultSearchMakes) :
                \A command \in Range(make_get_discovery_commands(m)) :
                    TasksWith(command) = 1)
    /\ []((fac_pc = "spawned" /\ search_firmwares = None) =>
            \A f \in Range(DefaultSearchFirmwares) :
                \A command \in Range(firmware_get_discovery_commands(f)) :
                    TasksWith(command) = 1)

\* C30 witness: remove_search_make(WhatsMiner) was called on a factory whose
\* list of makes was never set, and the list is still unset.
C30_Witness ==
    /\ fac_pc = "configuring"
    /\ fac_op = <<"remove_search_make", "WhatsMiner">>
    /\ search_makes = None
    /\ "WhatsMiner" \in Range(list_or(search_makes, DefaultSearchMakes))

\* ======================================================================
\* get_version_whatsminer (factory/model/mod.rs) and BTMiner::new
\* (backends/btminer/mod.rs)
\* ======================================================================

\* str::parse::<u32>: decimal digits, with or without a leading plus sign
parse_u32(text) ==
    LET digits == IF text # << >> /\ text[1] = "+" THEN Tail(text) ELSE text
    IN  IF digits = << >> \/ \E i \in 1..Len(digits) : digits[i] \notin Digits THEN None
        ELSE Some(Numeral(digits))

\* semver::Version::new
Version_new(major, minor, patch) == [major |-> major, minor |-> minor, patch |-> patch]

\* get_version_whatsminer, from the fw_ver of the answer: YYYYMMDD.XX.REL
get_version_whatsminer(fw_version) ==
    IF fw_version = None THEN None
    ELSE IF Len(fw_version[2]) < 8 THEN None
    ELSE LET date_part == SubSeq(fw_version[2], 1, 8)
             year == parse_u32(SubSeq(date_part, 1, 4))
             month == parse_u32(SubSeq(date_part, 5, 6))
             day == parse_u32(SubSeq(date_part, 7, 8))
         IN  IF year # None /\ month # None /\ day # None
             THEN Some(Version_new(year[2], month[2], day[2]))
             ELSE None

\* semver: a comparator >= major.minor.patch matches a version without
\* pre-release when they are equal or the version is greater, component by
\* component
matches_exact(cmp, ver) ==
    ver.major = cmp.major /\ ver.minor = cmp.minor /\ ver.patch = cmp.patch
matches_greater(cmp, ver) ==
    IF ver.major # cmp.major THEN ver.major > cmp.major
    ELSE IF ver.minor # cmp.minor THEN ver.minor > cmp.minor
    ELSE IF ver.patch # cmp.patch THEN ver.patch > cmp.patch
    ELSE FALSE
matches_ge(cmp, ver) == matches_exact(cmp, ver) \/ matches_greater(cmp, ver)

\* a selection comparing the components one by one, not in order
BTMiner_new_componentwise(version) ==
    IF version.major >= 2024 /\ version.minor >= 11 /\ version.patch >= 0 THEN "BTMiner3"
    ELSE IF version.major >= 2022 /\ version.minor >= 9 /\ version.patch >= 20 THEN "BTMiner2"
    ELSE "BTMiner1"

\* BTMiner::new
BTMiner_new(version) ==
    IF matches_ge(Version_new(2024, 11, 0), version) THEN "BTMiner3"
    ELSE IF matches_ge(Version_new(2022, 9, 20), version) THEN "BTMiner2"
    ELSE "BTMiner1"

\* the fw_ver texts tried: dates around the two thresholds, and texts that
\* are no date
FwYears == {<<"0","0","0","0">>, <<"2","0","2","2">>, <<"2","0","2","3">>,
            <<"2","0","2","4">>, <<"2","0","2","5">>}
FwMonths == {<<"0","0">>, <<"0","8">>, <<"0","9">>, <<"1","0">>, <<"1","1">>,
             <<"1","2">>, <<"9","9">>}
FwDays == {<<"0","0">>, <<"1","9">>, <<"2","0">>, <<"2","1">>, <<"9","9">>}
FwVersions ==
    {y \o m \o d \o <<".","1","6",".","R","E","L">> : y \in FwYears, m \in FwMonths, d \in FwDays}
    \cup {y \o m \o d : y \in {<<"2","0","2","4">>}, m \in FwMonths, d \in FwDays}
    \cup { << >>, <<"2","0","2","4","1","1">>, <<"+","2","0","2","4","1","1","0","1">>,
           <<"2","0","2","4","-","1","1","-","0","1">>, <<"v","2","0","2","4","1","1","0","1">> }

InitBt ==
    /\ IdleExcept("bt")
    /\ bt_fw_ver \in {None} \cup {Some(t) : t \in FwVersions}
    /\ bt_version = Pending
    /\ bt_backend = Pending

GetVersionWhatsminer ==
    /\ bt_version = Pending
    /\ bt_version' = Return(get_version_whatsminer(bt_fw_ver))
    /\ UNCHANGED <<bt_fw_ver, bt_backend, notBt>>

BTMinerNew ==
    /\ bt_version # Pending
    /\ bt_version[2] # None
    /\ bt_backend = Pending
    /\ bt_backend' = Return(BTMiner_new(bt_version[2][2]))
    /\ UNCHANGED <<bt_fw_ver, bt_version, notBt>>

NextBt == GetVersionWhatsminer \/ BTMinerNew

SpecBt == InitBt /\ [][NextBt]_vars

\* ---- claims about BTMiner

\* a date as one number: the order of these numbers is the order of the
\* versions as long as month and day are below 100
DateNumber(version) == version.major * 10000 + version.minor * 100 + version.patch

\* C25: BTMiner::new selects BTMiner3 iff version >= 2024.11.0, BTMiner2 iff
\* 2022.9.20 <= version < 2024.11.0, BTMiner1 iff version < 2022.9.20, the
\* versions compared in the order year, month, day.
C25_BackendByVersionRange ==
    bt_backend # Pending =>
        LET version == bt_version[2][2]
            date == DateNumber(version)
        IN  /\ version.minor < 100 /\ version.patch < 100
            /\ bt_backend[2] \in {"BTMiner1", "BTMiner2", "BTMiner3"}
            /\ bt_backend[2] = "BTMiner3" <=> date >= 20241100
            /\ bt_backend[2] = "BTMiner2" <=> (date >= 20220920 /\ date < 20241100)
            /\ bt_backend[2] = "BTMiner1" <=> date < 20220920

\* C25 witness: a later year with an earlier month and day than the
\* threshold 2022.9.20 is BTMiner2.
C25_Witness ==
    /\ bt_backend = Return("BTMiner2")
    /\ bt_version[2][2] = Version_new(2023, 8, 19)

\* ======================================================================
\* LUXMinerRPCAPI (backends/luxminer/v1/rpc.rs)
\* ======================================================================

\* RPCCommandStatus::from_luxminer
from_luxminer(response) ==
    IF ~response.parses
    THEN RpcErr(StatusCheckFailed("Failed to parse status from LuxMiner response"))
    ELSE LET status_array == and_then_as_array(json_get(response.document, "STATUS"))
         IN  IF status_array # None /\ Len(status_array[2]) # 0
                  /\ and_then_as_str(json_get(status_array[2][1], "STATUS")) # None
             THEN Ok(from_str(and_then_as_str(json_get(status_array[2][1], "STATUS"))[2],
                             and_then_as_str(json_get(status_array[2][1], "Msg"))))
             ELSE RpcErr(StatusCheckFailed("Failed to parse status from LuxMiner response"))

\* LUXMinerRPCAPI::parse_rpc_result
lux_parse_rpc_result(response) ==
    LET status == from_luxminer(response)
    IN  IF status[1] # "Ok" THEN status
        ELSE IF into_result(status[2])[1] = "Ok" THEN Ok(response.document)
        ELSE into_result(status[2])

\* data.get("SESSION").and_then(|s| s.get(0)).and_then(|s| s.get("SessionID"))
\*     .and_then(|s| s.as_str())
session_id_of(data) ==
    LET session == json_get(data, "SESSION")
        first == IF session = None \/ session[2][1] # "Arr" \/ Len(session[2][2]) = 0
                 THEN None ELSE Some(session[2][2][1])
        id == IF first = None THEN None ELSE json_get(first[2], "SessionID")
    IN  and_then_as_str(id)

\* Display of a serde_json string value: the text in double quotes
value_to_string(value) == <<"\"", value[2], "\"">>

\* the request of send_rpc_command: the command, and the parameter if any
request_of(command, privileged, parameters, token) ==
    IF privileged
    THEN IF parameters # None
         THEN [command |-> command,
               parameter |-> Some(JStr(<<token, ",">> \o value_to_string(parameters[2])))]
         ELSE [command |-> command, parameter |-> Some(JStr(<<token>>))]
    ELSE [command |-> command, parameter |-> parameters]

\* what a device may do with one command: refuse the connection, or answer
LuxStatus(code) == <<"STATUS", JArr(<< JObj(<< <<"STATUS", JStr(code)>> >>) >>)>>
LuxSession(id) == <<"SESSION", JArr(<< JObj(<< <<"SessionID", id>> >>) >>)>>
LuxDocuments ==
    { JObj(<< LuxStatus("S") >>),
      JObj(<< LuxStatus("E") >>),
      JObj(<< LuxStatus("S"), <<"SESSION", JArr(<< >>)>> >>),
      JObj(<< LuxStatus("S"), LuxSession(JStr("")) >>),
      JObj(<< LuxStatus("S"), LuxSession(JStr("tok1")) >>),
      JObj(<< LuxStatus("S"), LuxSession(JStr("tok2")) >>),
      JObj(<< LuxStatus("S"), LuxSession(JNum) >>) }
LuxAnswers ==
    {<<"refused">>} \cup {<<"answer", [parses |-> FALSE, document |-> JNull]>>}
    \cup {<<"answer", [parses |-> TRUE, document |-> d]>> : d \in LuxDocuments}

\* the calls tried: privileged and not, with and without parameters
LuxCalls ==
    { [command |-> "rebootdevice", privileged |-> TRUE, parameters |-> None],
      [command |-> "curtail", privileged |-> TRUE, parameters |-> Some(JStr("sleep"))],
      [command |-> "summary", privileged |-> FALSE, parameters |-> None],
      [command |-> "removepool", privileged |-> FALSE, parameters |-> Some(JStr("1"))] }

\* send_rpc_command(command, false, None) against a device: nothing is
\* written when the connection is refused
unprivileged_result(answer) ==
    IF answer[1] = "refused" THEN RpcErr(ConnectionFailed) ELSE lux_parse_rpc_result(answer[2])
unprivileged_written(command, answer) ==
    IF answer[1] = "refused" THEN << >> ELSE << request_of(command, FALSE, None, "") >>

InitLux ==
    /\ IdleExcept("lux")
    /\ lux_call \in LuxCalls
    /\ lux_session_answer \in LuxAnswers
    /\ lux_logon_answer \in LuxAnswers
    /\ lux_pc = "start"
    /\ lux_token = Pending
    /\ lux_written = << >>
    /\ lux_result = Pending

\* TcpStream::connect(..).map_err(|_| RPCError::ConnectionFailed)?
LuxConnect ==
    /\ lux_pc = "start"
    /\ \E connected \in BOOLEAN :
         IF connected
         THEN lux_pc' = "connected" /\ UNCHANGED lux_result
         ELSE lux_pc' = "returned" /\ lux_result' = Return(RpcErr(ConnectionFailed))
    /\ UNCHANGED <<lux_call, lux_session_answer, lux_logon_answer, lux_token, lux_written, notLux>>

\* auth, first half: self.session() and its non-empty SessionID
AuthSession ==
    /\ lux_pc = "connected"
    /\ lux_call.privileged
    /\ lux_written' = lux_written \o unprivileged_written("session", lux_session_answer)
    /\ LET data == unprivileged_result(lux_session_answer)
           session_id == IF data[1] = "Ok" THEN session_id_of(data[2]) ELSE None
       IN  IF session_id # None /\ session_id[2] # ""
           THEN lux_token' = Ok(session_id[2]) /\ lux_pc' = "authed"
           ELSE lux_token' = lux_token /\ lux_pc' = "logon"
    /\ UNCHANGED <<lux_call, lux_session_answer, lux_logon_answer, lux_result, notLux>>

\* auth, second half: self.logon()? and its SessionID; without a token
\* send_rpc_command returns the error
AuthLogon ==
    /\ lux_pc = "logon"
    /\ lux_written' = lux_written \o unprivileged_written("logon", lux_logon_answer)
    /\ LET data == unprivileged_result(lux_logon_answer)
           session_id == IF data[1] = "Ok" THEN session_id_of(data[2]) ELSE None
       IN  /\ lux_token' = IF session_id # None THEN Ok(session_id[2]) ELSE Err
           /\ IF session_id # None
              THEN lux_pc' = "authed" /\ UNCHANGED lux_result
              ELSE /\ lux_pc' = "returned"
                   /\ lux_result' = Return(RpcErr(<<"anyhow",
                          "Unable to get session token for privileged command">>))
    /\ UNCHANGED <<lux_call, lux_session_answer, lux_logon_answer, notLux>>

\* the request is built and written, the answer read and parsed
WriteRequest ==
    /\ \/ lux_pc = "connected" /\ ~lux_call.privileged
       \/ lux_pc = "authed"
    /\ lux_written' = lux_written \o
          << request_of(lux_call.command, lux_call.privileged, lux_call.parameters,
                        IF lux_call.privileged THEN lux_token[2] ELSE "") >>
    /\ \E answer \in LuxAnswers \ {<<"refused">>} :
          lux_result' = Return(lux_parse_rpc_result(answer[2]))
    /\ lux_pc' = "returned"
    /\ UNCHANGED <<lux_call, lux_session_answer, lux_logon_answer, lux_token, notLux>>

NextLux == LuxConnect \/ AuthSession \/ AuthLogon \/ WriteRequest

SpecLux == InitLux /\ [][NextLux]_vars

\* ---- claims about LUXMinerRPCAPI

\* the requests written that carry the command of the call
CommandRequests ==
    {i \in 1..Len(lux_written) : lux_written[i].command = lux_call.command}

\* C26: a privileged command is never written without a session token: every
\* written request of a privileged call has a parameter that begins with a
\* token, and the token is not empty.
C26_PrivilegedCarriesToken ==
    (lux_pc # "idle" /\ lux_call.privileged) =>
        \A i \in CommandRequests :
            /\ lux_written[i].parameter # None
            /\ lux_written[i].parameter[2][2][1] # ""

\* the other parts of C26: the token written is the one auth returned, the
\* session's when it is not empty and the logon's otherwise, and without a
\* token the call returns an error and the command is not written
TokenComesFromAuth ==
    (lux_pc # "idle" /\ lux_call.privileged) =>
        /\ \A i \in CommandRequests :
              /\ lux_token # Pending /\ lux_token[1] = "Ok"
              /\ lux_written[i].parameter[2][2][1] = lux_token[2]
        /\ (lux_token = Err) =>
              /\ CommandRequests = {}
              /\ lux_pc = "returned" /\ lux_result[2][1] = "Err"

\* ======================================================================
\* LuxMinerV1::parse_hashboards (backends/luxminer/v1/mod.rs)
\* ======================================================================
\* Numbers are integers; a temperature text "a-b-c" is the sequence of
\* its pieces, each piece given as what s.parse().ok() makes of it: Some
\* number, or None.

MaxBoards == 4

as_f64(value) == IF value[1] = "Num" THEN Some(value[2]) ELSE None
as_u64(value) == IF value[1] = "Num" /\ value[2] >= 0 THEN Some(value[2]) ELSE None
and_then_as_f64(option) == IF option = None THEN None ELSE as_f64(option[2])
and_then_as_u64(option) == IF option = None THEN None ELSE as_u64(option[2])

RECURSIVE sum_of(_)
sum_of(numbers) == IF numbers = << >> THEN 0 ELSE Head(numbers) + sum_of(Tail(numbers))

\* an average, kept as the sum and the count it divides
average(numbers) == [sum |-> sum_of(numbers), count |-> Len(numbers)]

\* HashRate { value, unit: GigaHash }.as_unit(TeraHash): the value in GH/s,
\* shown in TH/s; the sign is that of the value
GigaHash_as_TeraHash(value) == [ghs |-> value, unit |-> "TeraHash"]

\* LuxMinerV1::parse_temp_string
parse_temp_string(temp_str) ==
    LET parsed == SelectSeq(temp_str, LAMBDA piece : piece # None)
        temps == SelectSeq([i \in 1..Len(parsed) |-> parsed[i][2]], LAMBDA temp : temp > 0)
    IN  IF temps # << >> THEN Some(average(temps)) ELSE None

\* format!("chain_rate{}", idx) and the like
chain_rate(idx) == <<"chain_rate1", "chain_rate2", "chain_rate3", "chain_rate4">>[idx]
temp_pcb(idx) == <<"temp_pcb1", "temp_pcb2", "temp_pcb3", "temp_pcb4">>[idx]
temp_chip(idx) == <<"temp_chip1", "temp_chip2", "temp_chip3", "temp_chip4">>[idx]
freq(idx) == <<"freq1", "freq2", "freq3", "freq4">>[idx]
CHIPS(i) == <<"CHIPS_0", "CHIPS_1", "CHIPS_2">>[i + 1]

\* the boards pushed first: one per position 0..board_count-1
empty_boards(board_count, expected_chips) ==
    [i \in 1..board_count |->
        [position |-> i - 1, hashrate |-> None, board_temperature |-> None,
         intake_temperature |-> None, expected_chips |-> expected_chips,
         working_chips |-> None, chips |-> << >>, frequency |-> None,
         tuned |-> Some(FALSE), active |-> Some(FALSE)]]

\* the loop over 1..=board_count on the STATS sub-result
stats_board(board, stats_data, idx) ==
    LET hashrate == and_then_as_f64(json_get(stats_data, chain_rate(idx)))
        pcb == and_then_as_str(json_get(stats_data, temp_pcb(idx)))
        board_temp == IF pcb = None THEN None ELSE parse_temp_string(pcb[2])
        chip == and_then_as_str(json_get(stats_data, temp_chip(idx)))
        chip_temp == IF chip = None THEN None ELSE parse_temp_string(chip[2])
        frequency == and_then_as_u64(json_get(stats_data, freq(idx)))
    IN  [board EXCEPT
            !.hashrate = IF hashrate # None THEN Some(GigaHash_as_TeraHash(hashrate[2])) ELSE @,
            !.board_temperature = IF board_temp # None THEN board_temp ELSE @,
            !.intake_temperature = IF chip_temp # None THEN chip_temp ELSE @,
            !.frequency = IF frequency # None THEN frequency ELSE @]
with_stats(boards, data) ==
    LET stats_data == IF data = None THEN None ELSE json_get(data[2], "STATS")
    IN  IF stats_data = None THEN boards
        ELSE [i \in 1..Len(boards) |-> stats_board(boards[i], stats_data[2], i)]

\* one ChipData of a chip object, as <<"Return", ChipData>>; Panic when o.get("Chip").and_then(as_u64)
\* is None and is unwrapped
chip_data(o) ==
    LET position == and_then_as_u64(json_get(o, "Chip"))
        healthy == and_then_as_str(json_get(o, "Healthy"))
    IN  IF position = None THEN Panic
        ELSE Return([position |-> position[2] % 65536,
                     temperature |-> and_then_as_f64(json_get(o, "Temp")),
                     hashrate |-> and_then_as_f64(json_get(o, "GHS 1m")),
                     frequency |-> and_then_as_f64(json_get(o, "Frequency")),
                     tuned |-> IF healthy = None THEN None ELSE Some(healthy[2] = "Y"),
                     working |-> IF healthy = None THEN None ELSE Some(healthy[2] = "Y"),
                     voltage |-> None])

\* arr.iter().filter_map(|v| v.as_object()).map(..).collect()
chips_of(arr) ==
    LET objects == SelectSeq(arr, LAMBDA v : v[1] = "Obj")
    IN  IF \E i \in 1..Len(objects) : chip_data(objects[i]) = Panic THEN Panic
        ELSE Return([i \in 1..Len(objects) |-> chip_data(objects[i])[2]])

\* the loop over CHIPS_0..CHIPS_2: boards[idx].chips = .., which panics
\* when a chip entry has no Chip number or when there is no board idx; the
\* boards as <<"Return", boards>>, or Panic
RECURSIVE with_chips(_, _, _)
with_chips(boards, data, idx) ==
    IF idx = 3 \/ data = None THEN Return(boards)
    ELSE LET arr == and_then_as_array(json_get(data[2], CHIPS(idx)))
         IN  IF arr = None THEN with_chips(boards, data, idx + 1)
             ELSE IF chips_of(arr[2]) = Panic \/ idx >= Len(boards) THEN Panic
             ELSE with_chips([boards EXCEPT ![idx + 1].chips = chips_of(arr[2])[2]],
                             data, idx + 1)

Values(chips, part) ==
    LET present == SelectSeq(chips, LAMBDA c : c[part] # None)
    IN  [i \in 1..Len(present) |-> present[i][part][2]]

\* the last loop: the totals of a board that has chips
totals(b) ==
    IF b.chips = << >> THEN b
    ELSE LET working_chips == Len(SelectSeq(b.chips, LAMBDA c : unwrap_or(c.working, FALSE)))
             total_hr == sum_of(Values(b.chips, "hashrate"))
             hashrate == IF total_hr > 0 THEN Some(GigaHash_as_TeraHash(total_hr))
                         ELSE b.hashrate
             temps == Values(b.chips, "temperature")
             freqs == Values(b.chips, "frequency")
             active == working_chips > 0 \/ (hashrate # None /\ hashrate[2].ghs > 0)
         IN  [b EXCEPT !.working_chips = Some(working_chips),
                       !.hashrate = hashrate,
                       !.intake_temperature = IF temps # << >> THEN Some(average(temps)) ELSE @,
                       !.frequency = IF freqs # << >> THEN Some(average(freqs)) ELSE @,
                       !.active = Some(active),
                       !.tuned = Some(active)]

\* LuxMinerV1::parse_hashboards
parse_hashboards(boards, chips, data) ==
    LET board_count == unwrap_or(boards, 3)
        filled == with_chips(with_stats(empty_boards(board_count, chips), data), data, 0)
    IN  IF filled = Panic THEN Panic
        ELSE Return([i \in 1..Len(filled[2]) |-> totals(filled[2][i])])

\* the sub-results tried
LhStats ==
    { JObj(<< >>),
      JObj(<< <<"chain_rate1", JNumber(4000)>>, <<"temp_pcb1", JStr(<<Some(45), Some(50), Some(0), None>>)>>,
              <<"temp_chip2", JStr(<<None>>)>>, <<"freq3", JNumber(500)>>,
              <<"chain_rate4", JNumber(0)>> >>),
      JStr("none") }
LhChipLists ==
    { JArr(<< >>),
      JArr(<< JObj(<< <<"Chip", JNumber(0)>>, <<"Temp", JNumber(60)>>, <<"GHS 1m", JNumber(30)>>,
                     <<"Frequency", JNumber(500)>>, <<"Healthy", JStr("Y")>> >>),
              JObj(<< <<"Chip", JNumber(1)>>, <<"Healthy", JStr("N")>> >>) >>),
      JArr(<< JNumber(7), JObj(<< <<"Chip", JNumber(0)>> >>) >>),
      JArr(<< JObj(<< <<"Temp", JNumber(60)>> >>) >>),
      JArr(<< JObj(<< <<"Chip", JStr("0")>> >>) >>),
      JNull }
OptionalMember(key, values) == {<< >>} \cup {<< <<key, v>> >> : v \in values}
LhData ==
    {None} \cup
    {Some(JObj(st \o c0 \o c1 \o c2)) :
        st \in OptionalMember("STATS", LhStats), c0 \in OptionalMember("CHIPS_0", LhChipLists),
        c1 \in OptionalMember("CHIPS_1", LhChipLists),
        c2 \in OptionalMember("CHIPS_2", LhChipLists)}

InitLh ==
    /\ IdleExcept("lh")
    /\ lh_boards \in {None} \cup {Some(n) : n \in 0..MaxBoards}
    /\ lh_chips \in {None, Some(126)}
    /\ lh_data \in LhData
    /\ lh_result = Pending

ParseHashboards ==
    /\ lh_result = Pending
    /\ lh_result' = parse_hashboards(lh_boards, lh_chips, lh_data)
    /\ UNCHANGED <<lh_boards, lh_chips, lh_data, notLh>>

NextLh == ParseHashboards

SpecLh == InitLh /\ [][NextLh]_vars

\* ---- claims about parse_hashboards

\* C28: for every field map parse_hashboards returns exactly board_count
\* boards (hardware.boards, default 3) with positions 0..board_count-1 and
\* never panics.
C28_BoardCountBoardsNoPanic ==
    lh_result # Pending =>
        /\ lh_result # Panic
        /\ Len(lh_result[2]) = unwrap_or(lh_boards, 3)
        /\ \A i \in 1..Len(lh_result[2]) : lh_result[2][i].position = i - 1

\* what does hold: whenever parse_hashboards returns, it returns
\* board_count boards in the order of their positions
ReturnedBoardsAreBoardCount ==
    (lh_result # Pending /\ lh_result # Panic) =>
        /\ Len(lh_result[2]) = unwrap_or(lh_boards, 3)
        /\ \A i \in 1..Len(lh_result[2]) : lh_result[2][i].position = i - 1

\* ======================================================================
\* MaraV1::parse_pools (backends/marathon/v1/mod.rs)
\* ======================================================================
\* The priorities tried lie within i32, where `priority as i32` keeps the
\* value.

MaxPools == 3

\* std::i32::MAX
I32_MAX == 2147483647

as_i64(value) == IF value[1] = "Num" THEN Some(value[2]) ELSE None
and_then_as_i64(option) == IF option = None THEN None ELSE as_i64(option[2])

\* the first loop, from pool n on: the index of the Alive pool whose
\* priority is below every priority seen before it
RECURSIVE select_active(_, _, _, _)
select_active(pools_array, n, active_pool_index, highest_priority) ==
    IF n > Len(pools_array) THEN active_pool_index
    ELSE LET pool_info == pools_array[n]
             status == and_then_as_str(json_get(pool_info, "status"))
             priority == and_then_as_i64(json_get(pool_info, "priority"))
             index == and_then_as_u64(json_get(pool_info, "index"))
         IN  IF /\ status # None /\ priority # None /\ index # None
                /\ status[2] = "Alive"
                /\ priority[2] < highest_priority
             THEN select_active(pools_array, n + 1, Some(index[2] % 65536), priority[2])
             ELSE select_active(pools_array, n + 1, active_pool_index, highest_priority)

\* the second loop: the PoolData of one pool
pool_data(pool_info, active_pool_index) ==
    LET url == and_then_as_str(json_get(pool_info, "url"))
        index == and_then_as_u64(json_get(pool_info, "index"))
        status == and_then_as_str(json_get(pool_info, "status"))
        position == IF index = None THEN None ELSE Some(index[2] % 65536)
    IN  [position |-> position,
         url |-> IF url # None /\ url[2] # "" THEN url ELSE None,
         accepted_shares |-> and_then_as_u64(json_get(pool_info, "accepted")),
         rejected_shares |-> and_then_as_u64(json_get(pool_info, "rejected")),
         active |-> Some(IF position = None THEN FALSE ELSE position = active_pool_index),
         alive |-> IF status = None THEN None ELSE Some(status[2] = "Alive"),
         user |-> and_then_as_str(json_get(pool_info, "user"))]

\* MaraV1::parse_pools
parse_pools(data) ==
    IF data = None \/ json_as_array(data[2]) = None THEN << >>
    ELSE LET pools_array == json_as_array(data[2])[2]
             active_pool_index == select_active(pools_array, 1, None, I32_MAX)
         IN  [i \in 1..Len(pools_array) |-> pool_data(pools_array[i], active_pool_index)]

\* the pools tried: Alive ones with and without priority and index, Dead
\* ones, and ones whose status, url or index is missing or of another kind
MaraPriority == OptionalMember("priority", {JNumber(0), JNumber(1), JNumber(I32_MAX)})
MaraIndex == OptionalMember("index", {JNumber(0), JNumber(1)})
MaraRest == << <<"url", JStr("stratum+tcp://pool")>>, <<"user", JStr("worker")>>,
               <<"accepted", JNumber(10)>> >>
MaraPools ==
    {JObj(<< <<"status", JStr("Alive")>> >> \o pr \o ix \o MaraRest) :
        pr \in MaraPriority, ix \in MaraIndex}
    \cup {JObj(<< <<"status", JStr("Dead")>>, <<"priority", JNumber(0)>> >> \o ix \o MaraRest) :
             ix \in MaraIndex}
    \cup {JObj(<< <<"priority", JNumber(0)>>, <<"index", JNumber(0)>> >> \o MaraRest),
          JObj(<< <<"status", JStr("Alive")>>, <<"priority", JNumber(0)>>,
                  <<"index", JNumber(0)>>, <<"url", JStr("")>> >>),
          JObj(<< <<"status", JNumber(1)>>, <<"priority", JStr("0")>>, <<"index", JNumber(0 - 1)>> >>)}
MaraPoolLists ==
    UNION {[1..n -> MaraPools] : n \in 0..MaxPools}

InitMp ==
    /\ IdleExcept("mp")
    /\ mp_data \in {None, Some(JNull)} \cup {Some(JArr(list)) : list \in MaraPoolLists}
    /\ mp_result = Pending

ParsePools ==
    /\ mp_result = Pending
    /\ mp_result' = Return(parse_pools(mp_data))
    /\ UNCHANGED <<mp_data, notMp>>

NextMp == ParsePools

SpecMp == InitMp /\ [][NextMp]_vars

\* ---- claims about parse_pools

\* the pools given to parse_pools
InputPools == IF mp_data = None \/ mp_data[2][1] # "Arr" THEN << >> ELSE mp_data[2][2]
StatusOf(i) == and_then_as_str(json_get(InputPools[i], "status"))
PriorityOf(i) == and_then_as_i64(json_get(InputPools[i], "priority"))
IndexOf(i) == and_then_as_u64(json_get(InputPools[i], "index"))

\* the Alive pools that have a priority and an index, and the best of them:
\* the first in list order among those of the lowest priority
AlivePools ==
    {i \in 1..Len(InputPools) :
        StatusOf(i) = Some("Alive") /\ PriorityOf(i) # None /\ IndexOf(i) # None}
BestAlive ==
    CHOOSE i \in AlivePools :
        \A j \in AlivePools :
            \/ PriorityOf(i)[2] < PriorityOf(j)[2]
            \/ PriorityOf(i)[2] = PriorityOf(j)[2] /\ i <= j
ActivePools == {i \in 1..Len(mp_result[2]) : mp_result[2][i].active = Some(TRUE)}

\* every pool of the input is in the output, in its place
EveryPoolInOutput ==
    mp_result # Pending =>
        /\ Len(mp_result[2]) = Len(InputPools)
        /\ \A i \in 1..Len(InputPools) : mp_result[2][i].position = IndexOf(i)

\* C29: parse_pools marks as active exactly the pools whose index equals the
\* index of the Alive pool with the lowest priority (the first on ties); when
\* no pool is Alive none is active; with unique indices at most one pool is
\* active; every pool of the input is in the output.
C29_ActiveIsLowestPriorityAlive ==
    mp_result # Pending =>
        /\ EveryPoolInOutput
        /\ IF AlivePools = {} THEN ActivePools = {}
           ELSE ActivePools = {i \in 1..Len(InputPools) : IndexOf(i) = IndexOf(BestAlive)}
        /\ (\A i, j \in 1..Len(InputPools) :
                (i # j /\ IndexOf(i) # None) => IndexOf(i) # IndexOf(j))
              => Cardinality(ActivePools) <= 1

\* what does hold: the same with every priority below i32::MAX
ActiveIsLowestPriorityBelowMax ==
    (mp_result # Pending /\ \A i \in AlivePools : PriorityOf(i)[2] < I32_MAX) =>
        C29_ActiveIsLowestPriorityAlive

====
